---- MODULE Spec2Model ----
(***************************************************************************)
(* Def-use chain analysis of beniget (src/beniget/beniget.py).             *)
(*                                                                         *)
(* DefUseChains.visit walks a module AST recursively.  The walk is         *)
(* modelled as a state machine: the Python call stack is the sequence      *)
(* `stack` of frames (a statement list being processed by process_body,    *)
(* or the point of a visit_X method to come back to once a statement list  *)
(* is finished), and every action is the visit of one statement or the     *)
(* remainder of one visit_X method up to its next call of process_body.    *)
(*                                                                         *)
(* Objects with identity are kept in heaps: `layers` holds the dicts of    *)
(* the definition stack (a branch layer is a dict.copy(), which shares     *)
(* the ordered_set values of the layer it copies), `osets` holds the       *)
(* ordered_set values.  AST nodes are identified by their path from the    *)
(* Module node, Defs by the node they wrap.                                *)
(***************************************************************************)
EXTENDS Integers, Sequences, FiniteSets, TLC

(***************************************************************************)
(* Sequences as Python lists and ordered sets.                             *)
(***************************************************************************)
Range(s) == {s[i] : i \in DOMAIN s}

Last(s) == s[Len(s)]

Front(s) == SubSeq(s, 1, Len(s) - 1)

Reverse(s) == [i \in 1..Len(s) |-> s[Len(s) + 1 - i]]

\* Python's seq[lo:hi] for possibly negative lo, hi (0-based, hi excluded)
PySlice(s, lo, hi) ==
  LET n == Len(s)
      norm(i) == IF i < 0 THEN (IF n + i < 0 THEN 0 ELSE n + i)
                 ELSE (IF i > n THEN n ELSE i)
  IN SubSeq(s, norm(lo) + 1, norm(hi))

\* ordered_set.add
os_add(s, x) == IF x \in Range(s) THEN s ELSE Append(s, x)

\* ordered_set.update
RECURSIVE os_update(_, _)
os_update(s, t) == IF t = <<>> THEN s ELSE os_update(os_add(s, Head(t)), Tail(t))

\* a dict as a function; d[k] = v
DictSet(d, k, v) == [x \in DOMAIN d \cup {k} |-> IF x = k THEN v ELSE d[x]]

EmptyDict == [x \in {} |-> <<>>]

(***************************************************************************)
(* The AST.  A statement is a record                                       *)
(*   k: node type, n: bound name, v: name read ("" for a Constant),        *)
(*   b: body, o: orelse, h: body of the first handler of a Try,            *)
(*   g: body of its second handler (<<>> when it has one handler),         *)
(*   d: name read by the decorator of a FunctionDef ("" if none).          *)
(* The path of module.body[i] is <<1, i>>; the path of s.body[i] is        *)
(* path(s) \o <<1, i>>, of s.orelse[i] path(s) \o <<2, i>>, of the i-th      *)
(* statement of the handler path(s) \o <<3, i>>, of the second handler     *)
(* path(s) \o <<4, i>>.  The Name or alias a                               *)
(* statement binds is at path(s) \o <<3>>, its value, test or iter         *)
(* expression at path(s) \o <<4>>, a function's or lambda's parameter at   *)
(* path(s) \o <<5>>, the body of a lambda at path(s) \o <<6>>, a           *)
(* decorator at path(s) \o <<7>>, the default of a parameter at            *)
(* path(s) \o <<8>>, a return annotation at path(s) \o <<9>>.              *)
(***************************************************************************)
Stmt(k, n, v, b, o) ==
  [k |-> k, n |-> n, v |-> v, b |-> b, o |-> o, h |-> <<>>, g |-> <<>>,
   d |-> "", e |-> "", r |-> ""]

Assign(n, v)     == Stmt("Assign", n, v, <<>>, <<>>)
AugAssign(n)     == Stmt("AugAssign", n, "", <<>>, <<>>)
\* n += v, v a name
AugAssignOf(n, v) == Stmt("AugAssign", n, v, <<>>, <<>>)
Expr(v)          == Stmt("Expr", "", v, <<>>, <<>>)
Import(n)        == Stmt("Import", n, "", <<>>, <<>>)
\* from m import n, n a name or "*"
ImportFrom(n)    == Stmt("ImportFrom", n, "", <<>>, <<>>)
Global(n)        == Stmt("Global", n, "", <<>>, <<>>)
Nonlocal(n)      == Stmt("Nonlocal", n, "", <<>>, <<>>)
Raise            == Stmt("Raise", "", "", <<>>, <<>>)
Break            == Stmt("Break", "", "", <<>>, <<>>)
Continue         == Stmt("Continue", "", "", <<>>, <<>>)
If(b, o)         == Stmt("If", "", "", b, o)
For(n, b, o)     == Stmt("For", n, "", b, o)
While(v, b, o)   == Stmt("While", "", v, b, o)
FunctionDef(n, a, b) == Stmt("FunctionDef", n, a, b, <<>>)
ClassDef(n, b)   == Stmt("ClassDef", n, "", b, <<>>)
Module(b)        == Stmt("Module", "", "", b, <<>>)
\* the expression statement `lambda n: v`, n "" for no parameter
Lambda(n, v)     == Stmt("Lambda", n, v, <<>>, <<>>)
\* try: b  except: h  else: o
Try(b, h, o)     == [Stmt("Try", "", "", b, o) EXCEPT !.h = h]
\* try: b  except A: h  except: g  else: o
TryExcepts(b, h, g, o) == [Try(b, h, o) EXCEPT !.g = g]
\* @d def n(a): b
Decorated(d, n, a, b) == [FunctionDef(n, a, b) EXCEPT !.d = d]
\* def n(a=e): b
Defaulted(e, n, a, b) == [FunctionDef(n, a, b) EXCEPT !.e = e]
\* def n(a) -> r: b
Annotated(r, n, a, b) == [FunctionDef(n, a, b) EXCEPT !.r = r]

\* the Name or alias a statement binds
Target(p) == p \o <<3>>

\* the value, test or iter expression of a statement
Value(p) == p \o <<4>>

\* the parameter of a function or of a lambda
Param(p) == p \o <<5>>

\* the body of the lambda of a Lambda statement
LambdaBody(p) == p \o <<6>>

\* the decorator of a function
Decorator(p) == p \o <<7>>

\* the default of the parameter of a function
Default(p) == p \o <<8>>

\* the return annotation of a function
Returns(p) == p \o <<9>>

RECURSIVE Sub(_, _)
Sub(s, p) ==
  IF p = <<>> THEN s
  ELSE Sub((IF p[1] = 1 THEN s.b ELSE IF p[1] = 2 THEN s.o
            ELSE IF p[1] = 3 THEN s.h ELSE s.g)[p[2]],
           Tail(Tail(p)))

\* the statement list `field` of the statement at path p of module m
StmtList(m, p, field) ==
  IF field = 1 THEN Sub(m, p).b
  ELSE IF field = 2 THEN Sub(m, p).o
  ELSE IF field = 3 THEN Sub(m, p).h ELSE Sub(m, p).g

\* the statement that owns the node at path p
OwnerPath(p) == IF Len(p) % 2 = 1 THEN Front(p) ELSE p

\* the identifier a node carries: Name.id, alias.name, FunctionDef/ClassDef.name
NodeId(m, p) ==
  LET s == Sub(m, OwnerPath(p))
  IN IF Len(p) % 2 = 0 THEN s.n
     ELSE IF p = Target(Front(p)) THEN s.n
     ELSE IF p = Param(Front(p)) THEN (IF s.k = "Lambda" THEN s.n ELSE s.v)
     ELSE IF p = Decorator(Front(p)) THEN s.d
     ELSE IF p = Default(Front(p)) THEN s.e
     ELSE IF p = Returns(Front(p)) THEN s.r
     ELSE s.v

\* the type of a node
NodeType(m, p) ==
  LET s == Sub(m, OwnerPath(p))
  IN IF Len(p) % 2 = 0 THEN s.k
     ELSE IF p = Target(Front(p))
          THEN (IF s.k \in {"Import", "ImportFrom"} THEN "alias" ELSE "Name")
     ELSE IF p \in {Param(Front(p)), Decorator(Front(p)), Default(Front(p)),
                     Returns(Front(p))} THEN "Name"
     ELSE IF p = Value(Front(p)) /\ s.k = "Lambda" THEN "Lambda"
     ELSE IF s.v = "" THEN "Constant" ELSE "Name"

(***************************************************************************)
(* Defs.  A Def wraps a node; two Defs of the same node are two objects:   *)
(* the one visit_Name creates ("node") and the one defs() creates for an   *)
(* unresolved read ("undef").  The builtin Defs wrap the builtin values,   *)
(* the Def of __class__ wraps a string.                                    *)
(***************************************************************************)
NodeDef(p)     == [t |-> "node", n |-> p, x |-> ""]
UndefDef(p)    == [t |-> "undef", n |-> p, x |-> ""]
BuiltinDef(nm) == [t |-> "builtin", n |-> <<>>, x |-> nm]
ClassCell(i)   == [t |-> "__class__", n |-> <<i>>, x |-> "__class__"]

\* stand-in for the names of the builtins module, with "__file__"
Builtins == {"len", "__file__"}

\* Def.name()
name(m, d) ==
  IF d.t \in {"node", "undef"}
  THEN (IF NodeType(m, d.n) \in {"Name", "alias", "FunctionDef", "ClassDef"}
        THEN NodeId(m, d.n) ELSE NodeType(m, d.n))
  ELSE IF d.t = "builtin" THEN "builtin_function_or_method"
  ELSE "str"

(***************************************************************************)
(* collect_locals: the names bound in a scope, nested scopes not entered.  *)
(***************************************************************************)
RECURSIVE CollectLocals(_, _)
CollectLocals(stmts, acc) ==
  IF stmts = <<>> THEN acc
  ELSE LET s == Head(stmts)
           store(a, n) == IF n \in a.NonLocals THEN a
                          ELSE [a EXCEPT !.Locals = @ \cup {n}]
           a1 == CASE s.k \in {"FunctionDef", "ClassDef", "Import", "ImportFrom"} ->
                        [acc EXCEPT !.Locals = @ \cup {s.n}]
                   [] s.k \in {"Global", "Nonlocal"} ->
                        [acc EXCEPT !.NonLocals = @ \cup {s.n}]
                   [] s.k \in {"Assign", "AugAssign"} -> store(acc, s.n)
                   [] s.k = "For" ->
                        CollectLocals(s.o, CollectLocals(s.b, store(acc, s.n)))
                   [] s.k \in {"If", "While"} ->
                        CollectLocals(s.o, CollectLocals(s.b, acc))
                   [] s.k = "Try" ->
                        CollectLocals(s.o, CollectLocals(s.g,
                          CollectLocals(s.h, CollectLocals(s.b, acc))))
                   [] OTHER -> acc
       IN CollectLocals(Tail(stmts), a1)

collect_locals(node) ==
  CollectLocals(node.b, [Locals |-> {}, NonLocals |-> {}]).Locals

(***************************************************************************)
(* State of a DefUseChains instance.                                       *)
(***************************************************************************)
VARIABLES
  module,             \* the AST given to visit (self.module)
  chains,             \* self.chains: node -> Def
  chain_keys,         \* the keys of self.chains in insertion order
  users,              \* Def._users of every Def that has users
  locals,             \* self.locals: scope node -> list of Def
  layers,             \* heap of the dicts of the definition stack: name -> oset
  osets,              \* heap of the ordered_set values held by the layers
  definitions,        \* self._definitions: stack of layers
  scope_depths,       \* self._scope_depths
  globals,            \* self._globals
  precomputed_locals, \* self._precomputed_locals
  undefs,             \* self._undefs
  scopes,             \* self._scopes
  breaks,             \* self._breaks
  continues,          \* self._continues
  deadcode,           \* self._deadcode
  defered,            \* self._defered
  diags,              \* what unbound_identifier printed, in order
  nsynth,             \* number of Def("__class__") objects created
  stack,              \* the call stack of the walk, innermost call first
  usedef,             \* UseDefChains(self).chains, once built
  pc                  \* "init", "run", "done" (visit returned), "failed" (a
                      \* sanity check of visit_Module raised), "unbalanced"
                      \* (an assert on the stacks raised), "inverted"
                      \* (UseDefChains built)

vars == <<module, chains, chain_keys, users, locals, layers, osets, definitions,
          scope_depths, globals, precomputed_locals, undefs, scopes, breaks,
          continues, deadcode, defered, diags, nsynth, stack, usedef, pc>>

\* the instance as one record, so that the methods are functions on it
Self ==
  [chains |-> chains, chain_keys |-> chain_keys, users |-> users, locals |-> locals, layers |-> layers,
   osets |-> osets, definitions |-> definitions,
   scope_depths |-> scope_depths, globals |-> globals,
   precomputed_locals |-> precomputed_locals, undefs |-> undefs,
   scopes |-> scopes, breaks |-> breaks, continues |-> continues,
   deadcode |-> deadcode, defered |-> defered, diags |-> diags,
   nsynth |-> nsynth]

Becomes(S) ==
  /\ chains' = S.chains /\ chain_keys' = S.chain_keys
  /\ users' = S.users /\ locals' = S.locals
  /\ layers' = S.layers /\ osets' = S.osets
  /\ definitions' = S.definitions /\ scope_depths' = S.scope_depths
  /\ globals' = S.globals /\ precomputed_locals' = S.precomputed_locals
  /\ undefs' = S.undefs /\ scopes' = S.scopes /\ breaks' = S.breaks
  /\ continues' = S.continues /\ deadcode' = S.deadcode
  /\ defered' = S.defered /\ diags' = S.diags /\ nsynth' = S.nsynth

ModulePath == <<>>

\* self.chains[node] = d
chains_set(S, node, d) ==
  [S EXCEPT !.chains = DictSet(@, node, d),
            !.chain_keys = IF node \in DOMAIN S.chains THEN @ ELSE Append(@, node)]

\* d.users()
UsersOf(S, d) == IF d \in DOMAIN S.users THEN S.users[d] ELSE <<>>

\* self.locals[scope] of the defaultdict
LocalsOf(S, sc) == IF sc \in DOMAIN S.locals THEN S.locals[sc] ELSE <<>>

\* the dict of the layer on top of the definition stack
TopLayer(S) == Last(S.definitions)

\* the content of a layer, entry by entry: name -> sequence of Defs
LayerVals(S, lid) ==
  [nm \in DOMAIN S.layers[lid] |-> S.osets[S.layers[lid][nm]]]

\* Def.add_user
add_user(S, d, u) ==
  [S EXCEPT !.users = DictSet(@, d, os_add(UsersOf(S, d), u))]

RECURSIVE add_users(_, _, _)
\* for d in ds: d.add_user(u)
add_users(S, ds, u) ==
  IF ds = <<>> THEN S ELSE add_users(add_user(S, Head(ds), u), Tail(ds), u)

\* add_users_of were it to hand over the Def read from as well
add_users_of_and_src(S, d, src) ==
  [S EXCEPT !.users =
     DictSet(@, d, os_add(os_update(UsersOf(S, d), UsersOf(S, src)), src))]

\* for user in src.users(): d.add_user(user)
add_users_of(S, d, src) ==
  [S EXCEPT !.users = DictSet(@, d, os_update(UsersOf(S, d), UsersOf(S, src)))]

\* self.locals[scope].append(d)
locals_append(S, sc, d) ==
  [S EXCEPT !.locals = DictSet(@, sc, Append(LocalsOf(S, sc), d))]

\* set_definition were it to add to the entry instead of replacing it
set_definition_extends(S, nm, ds) ==
  IF S.deadcode # 0 THEN S
  ELSE IF nm \in DOMAIN S.layers[TopLayer(S)]
       THEN [S EXCEPT !.osets = Append(@, os_update(S.osets[S.layers[TopLayer(S)][nm]], ds)),
                      !.layers[TopLayer(S)] = DictSet(@, nm, Len(S.osets) + 1)]
       ELSE [S EXCEPT !.osets = Append(@, os_update(<<>>, ds)),
                      !.layers[TopLayer(S)] = DictSet(@, nm, Len(S.osets) + 1)]

\* set_definition were it to ignore the dead-code counter
set_definition_in_deadcode(S, nm, ds) ==
  [S EXCEPT !.osets = Append(@, os_update(<<>>, ds)),
            !.layers[TopLayer(S)] = DictSet(@, nm, Len(S.osets) + 1)]

set_definition(S, nm, ds) ==
  IF S.deadcode # 0 THEN S
  ELSE [S EXCEPT !.osets = Append(@, os_update(<<>>, ds)),
                 !.layers[TopLayer(S)] = DictSet(@, nm, Len(S.osets) + 1)]

\* add_to_definition on a layer of the definition stack
add_to_definition(S, lid, nm, ds) ==
  IF nm \in DOMAIN S.layers[lid]
  THEN [S EXCEPT !.osets[S.layers[lid][nm]] = os_update(@, ds)]
  ELSE [S EXCEPT !.osets = Append(@, os_update(<<>>, ds)),
                 !.layers[lid] = DictSet(@, nm, Len(S.osets) + 1)]

\* add_to_definition on a breaks or continues carrier, whose sets are its own
carrier_add(c, nm, ds) ==
  DictSet(c, nm, os_update(IF nm \in DOMAIN c THEN c[nm] ELSE <<>>, ds))

extend_definition(S, nm, ds) ==
  IF S.deadcode # 0 THEN S ELSE add_to_definition(S, TopLayer(S), nm, ds)

extend_global(S, nm, ds) ==
  IF S.deadcode # 0 THEN S ELSE add_to_definition(S, S.definitions[1], nm, ds)

set_or_extend_global(S, nm, d) ==
  IF S.deadcode # 0 THEN S
  ELSE add_to_definition(IF nm \notin DOMAIN S.layers[S.definitions[1]]
                         THEN locals_append(S, ModulePath, d) ELSE S,
                         S.definitions[1], nm, <<d>>)

RECURSIVE extend_all(_, _, _)
\* for d, u in src.items(): self.extend_definition(d, u)
extend_all(S, src, keys) ==
  IF keys = {} THEN S
  ELSE LET k == CHOOSE x \in keys : TRUE
       IN extend_all(extend_definition(S, k, src[k]), src, keys \ {k})

\* a sink that puts the latest message first
unbound_identifier_first(S, nm, node) ==
  [S EXCEPT !.diags = <<<<nm, node>>>> \o @]

unbound_identifier(S, nm, node) ==
  [S EXCEPT !.diags = Append(@, <<nm, node>>)]

\* any(name in _globals for _globals in self._globals)
DeclaredGlobal(S, nm) == \E i \in DOMAIN S.globals : nm \in S.globals[i]

\* invalid_name_lookup were its class branch to accept a binding of the
\* name in any layer, those of the enclosing functions included
invalid_name_lookup_any_layer(S, nm, scope, pl, local_defs) ==
  IF nm \notin pl THEN FALSE
  ELSE LET has(l) == nm \in DOMAIN S.layers[l] \/ "*" \in DOMAIN S.layers[l]
           islocal == \E l \in Range(local_defs) : has(l)
           isglobal == \E l \in Range(S.definitions) : has(l)
       IN IF NodeType(module, scope) = "ClassDef"
          THEN ~islocal /\ ~isglobal
          ELSE ~islocal

\* invalid_name_lookup were it to check the class scopes only
invalid_name_lookup_classes_only(S, nm, scope, pl, local_defs) ==
  /\ NodeType(module, scope) = "ClassDef"
  /\ invalid_name_lookup_any_layer(S, nm, scope, pl, S.definitions)

invalid_name_lookup(S, nm, scope, pl, local_defs) ==
  IF nm \notin pl THEN FALSE
  ELSE LET has(l) == nm \in DOMAIN S.layers[l] \/ "*" \in DOMAIN S.layers[l]
           islocal == \E l \in Range(local_defs) : has(l)
           top_level_definitions ==
             PySlice(S.definitions, 0, -S.scope_depths[1])
           isglobal == \E l \in Range(top_level_definitions) : has(l)
       IN IF NodeType(module, scope) = "ClassDef"
          THEN ~islocal /\ ~isglobal
          ELSE ~islocal

RECURSIVE OuterScopes_classes_too(_, _, _, _, _, _)
\* the loop of defs() over the enclosing scopes were it to search the layers
\* of the class scopes as well
OuterScopes_classes_too(S, nm, base_scope, k, lvl, acc) ==
  IF k = 0 THEN acc
  ELSE IF invalid_name_lookup(S, nm, base_scope, S.precomputed_locals[k],
                              PySlice(S.definitions, lvl + S.scope_depths[k], lvl))
       THEN <<>>
       ELSE OuterScopes_classes_too(
              S, nm, base_scope, k - 1, lvl + S.scope_depths[k],
              acc \o Reverse(PySlice(S.definitions, lvl + S.scope_depths[k], lvl)))

RECURSIVE OuterScopes(_, _, _, _, _, _)
\* the loop of defs() over the enclosing scopes, innermost first
OuterScopes(S, nm, base_scope, k, lvl, acc) ==
  IF k = 0 THEN acc
  ELSE LET depth == S.scope_depths[k]
           ds == PySlice(S.definitions, lvl + depth, lvl)
       IN IF NodeType(module, S.scopes[k]) # "ClassDef"
          THEN IF invalid_name_lookup(S, nm, base_scope,
                                      S.precomputed_locals[k], ds)
               THEN <<>>
               ELSE OuterScopes(S, nm, base_scope, k - 1, lvl + depth,
                                acc \o Reverse(ds))
          ELSE OuterScopes(S, nm, base_scope, k - 1, lvl + depth, acc)

looked_up_definitions(S, nm) ==
  IF DeclaredGlobal(S, nm)
  THEN PySlice(S.definitions, 0, -S.scope_depths[1])
  ELSE LET depth == Last(S.scope_depths)
           base_scope == Last(S.scopes)
           ds == PySlice(S.definitions, depth, Len(S.definitions))
           k == Len(S.scope_depths) - 1
       IN IF invalid_name_lookup(S, nm, base_scope,
                                 Last(S.precomputed_locals), ds)
          THEN <<>>
          ELSE OuterScopes(S, nm, base_scope,
                           IF Len(S.scopes) - 1 < k THEN Len(S.scopes) - 1 ELSE k,
                           depth, Reverse(ds))

\* self._undefs[-1][name].append(e) on the defaultdict(list) `frame`
undefs_register(frame, nm, e) ==
  IF \E i \in DOMAIN frame : frame[i].nm = nm
  THEN [i \in DOMAIN frame |->
          IF frame[i].nm = nm THEN [frame[i] EXCEPT !.lst = Append(@, e)]
          ELSE frame[i]]
  ELSE Append(frame, [nm |-> nm, lst |-> <<e>>])

RECURSIVE Lookup_shadowing(_, _, _, _)
\* the search of defs() were an explicit binding to shadow the wildcards
\* seen before it
Lookup_shadowing(S, nm, lays, stars) ==
  IF lays = <<>> THEN [found |-> FALSE, ret |-> stars]
  ELSE IF nm \in DOMAIN S.layers[Head(lays)]
       THEN [found |-> TRUE, ret |-> S.osets[S.layers[Head(lays)][nm]]]
       ELSE Lookup_shadowing(S, nm, Tail(lays),
                             IF "*" \in DOMAIN S.layers[Head(lays)]
                             THEN stars \o S.osets[S.layers[Head(lays)]["*"]]
                             ELSE stars)

RECURSIVE Lookup(_, _, _, _)
\* the search of defs() through the layers: the Defs found, or the stars seen
Lookup(S, nm, lays, stars) ==
  IF lays = <<>> THEN [found |-> FALSE, ret |-> stars]
  ELSE LET l == S.layers[Head(lays)]
       IN IF nm \in DOMAIN l
          THEN [found |-> TRUE, ret |-> stars \o S.osets[l[nm]]]
          ELSE Lookup(S, nm, Tail(lays),
                      IF "*" \in DOMAIN l THEN stars \o S.osets[l["*"]]
                      ELSE stars)

\* defs(): the name was found in no layer; d is
\* self.chains.setdefault(node, Def(node))
defs_unresolved(S, node, quiet, stars, d) ==
  IF S.undefs # <<>>
  THEN [S |-> [S EXCEPT !.undefs[Len(S.undefs)] =
                  undefs_register(@, NodeId(module, node),
                                  [d |-> d, stars |-> stars])],
        ret |-> stars \o <<d>>]
  ELSE [S |-> IF stars = <<>> /\ ~quiet
              THEN unbound_identifier(S, NodeId(module, node), node) ELSE S,
        ret |-> stars \o <<d>>]

\* defs(), r the outcome of the search through the layers
defs_looked_up(S, node, quiet, r) ==
  IF r.found THEN [S |-> S, ret |-> r.ret]
  ELSE IF node \in DOMAIN S.chains
       THEN defs_unresolved(S, node, quiet, r.ret, S.chains[node])
       ELSE defs_unresolved(chains_set(S, node, UndefDef(node)), node, quiet,
                            r.ret, UndefDef(node))

\* defs(node, quiet): the instance afterwards, and the list returned
defs(S, node, quiet) ==
  defs_looked_up(S, node, quiet,
                 Lookup(S, NodeId(module, node),
                        looked_up_definitions(S, NodeId(module, node)), <<>>))

(***************************************************************************)
(* The context managers.                                                   *)
(***************************************************************************)
ScopeContextEnter(S, node) ==
  [S EXCEPT !.scopes = Append(@, node),
            !.scope_depths = Append(@, -1),
            !.layers = Append(@, EmptyDict),
            !.definitions = Append(@, Len(S.layers) + 1),
            !.globals = Append(@, {}),
            !.precomputed_locals = Append(@, collect_locals(Sub(module, node)))]

\* ScopeContextExit were it to leave its frame of _globals in place
ScopeContextExit_keeps_globals(S) ==
  [S EXCEPT !.precomputed_locals = Front(@),
            !.definitions = Front(@),
            !.scope_depths = Front(@),
            !.scopes = Front(@)]

ScopeContextExit(S) ==
  [S EXCEPT !.precomputed_locals = Front(@),
            !.globals = Front(@),
            !.definitions = Front(@),
            !.scope_depths = Front(@),
            !.scopes = Front(@)]

\* with self.DefinitionContext(d): d becomes a new layer on top of the stack
DefinitionContextEnter(S, d) ==
  [S EXCEPT !.layers = Append(@, d),
            !.definitions = Append(@, Len(S.layers) + 1),
            !.scope_depths[Len(S.scope_depths)] = @ - 1]

\* the exit of DefinitionContext were it to leave the scope depth as it is
DefinitionContextExit_depth_kept(S) == [S EXCEPT !.definitions = Front(@)]

DefinitionContextExit(S) ==
  [S EXCEPT !.scope_depths[Len(S.scope_depths)] = @ + 1,
            !.definitions = Front(@)]

\* self._definitions[-1].copy(): a new dict that holds the same ordered_sets
TopCopy(S) == S.layers[TopLayer(S)]

\* SwitchScopeContext: the four stacks are replaced by those given
SwitchScopeContextEnter(S, e) ==
  [S EXCEPT !.scope_depths = e.scope_depths,
            !.scopes = e.scopes,
            !.definitions = e.defs,
            !.precomputed_locals = e.precomputed_locals]

SwitchScopeContextExit(S, saved) ==
  [S EXCEPT !.definitions = saved.defs,
            !.scopes = saved.scopes,
            !.scope_depths = saved.scope_depths,
            !.precomputed_locals = saved.precomputed_locals]

\* the four stacks as SwitchScopeContext and _defered hold them
Stacks(S) ==
  [defs |-> S.definitions, scopes |-> S.scopes,
   scope_depths |-> S.scope_depths,
   precomputed_locals |-> S.precomputed_locals]

(***************************************************************************)
(* Visits of expressions and of simple statements.                         *)
(***************************************************************************)
\* self.chains.setdefault(node, Def(node))
\* self.chains[node] = Def(node) at every visit: a Def of its own for each
chains_setdefault_anew(S, node) ==
  chains_set([S EXCEPT !.nsynth = @ + 1], node,
             [NodeDef(node) EXCEPT !.x = ToString(S.nsynth + 1)])

\* self.chains.setdefault(node, Def(node))
chains_setdefault(S, node) ==
  IF node \in DOMAIN S.chains THEN S
  ELSE chains_set(S, node, NodeDef(node))

visit_Constant(S, node) == chains_setdefault(S, node)

\* if dnode not in self.locals[self._scopes[-1]]: ...append(dnode)
locals_add(S, dnode) ==
  IF dnode \notin Range(LocalsOf(S, Last(S.scopes)))
  THEN locals_append(S, Last(S.scopes), dnode)
  ELSE S

\* visit_Name, ctx Store or Param, once dnode is in chains
visit_Name_Stored(S, node, nm) ==
  IF DeclaredGlobal(S, nm) THEN set_or_extend_global(S, nm, S.chains[node])
  ELSE locals_add(set_definition(S, nm, <<S.chains[node]>>), S.chains[node])

\* visit_Name, ctx Store or Param
visit_Name_Store(S, node) ==
  visit_Name_Stored(chains_setdefault(S, node), node, NodeId(module, node))

\* visit_Name, ctx Load, were it to link a node to its definitions only the
\* first time the node is visited
visit_Name_Loaded_first(r, node, dnode, node_in_chains) ==
  IF node_in_chains THEN r.S
  ELSE chains_set(add_users(r.S, r.ret, dnode), node, dnode)

\* visit_Name, ctx Load, r what defs(node) gave: d.add_user(dnode) for its
\* Defs, self.chains[node] = dnode if the node was not in chains before
visit_Name_Loaded(r, node, dnode, node_in_chains) ==
  IF node_in_chains THEN add_users(r.S, r.ret, dnode)
  ELSE chains_set(add_users(r.S, r.ret, dnode), node, dnode)

\* visit_Name, ctx Load
visit_Name_Load(S, node) ==
  visit_Name_Loaded(defs(S, node, FALSE), node,
                    IF node \in DOMAIN S.chains THEN S.chains[node]
                    ELSE NodeDef(node),
                    node \in DOMAIN S.chains)

\* self.visit(expr) for the expressions of the model
visit_expr(S, node) ==
  IF NodeType(module, node) = "Constant" THEN visit_Constant(S, node)
  ELSE visit_Name_Load(S, node)

visit_Assign(S, p) ==
  visit_Name_Store(visit_expr(S, Value(p)), Target(p))

visit_Expr(S, p) == visit_expr(S, Value(p))

\* visit_AugAssign, the target a local Name: r is
\* self.defs(node.target, quiet=True)
visit_AugAssign_local(r, nm, dtarget) ==
  IF "*" \in {name(module, r.ret[i]) : i \in DOMAIN r.ret}
  THEN locals_append(set_definition(r.S, nm, <<dtarget>>),
                     Last(r.S.scopes), dtarget)
  ELSE set_definition(r.S, nm, <<dtarget>>)

\* visit_AugAssign were its second lookup of the target not quiet
visit_AugAssign_target_loud(S, target, nm) ==
  IF DeclaredGlobal(S, nm) THEN extend_global(S, nm, <<S.chains[target]>>)
  ELSE visit_AugAssign_local(defs(S, target, FALSE), nm, S.chains[target])

\* visit_AugAssign from dvalue.add_user(dtarget) on
visit_AugAssign_target(S, target, nm) ==
  IF DeclaredGlobal(S, nm) THEN extend_global(S, nm, <<S.chains[target]>>)
  ELSE visit_AugAssign_local(defs(S, target, TRUE), nm, S.chains[target])

\* visit_AugAssign once value and target are visited
visit_AugAssign_visited(S, p) ==
  visit_AugAssign_target(add_user(S, S.chains[Value(p)], S.chains[Target(p)]),
                         Target(p), NodeId(module, Target(p)))

visit_AugAssign(S, p) ==
  visit_AugAssign_visited(
    visit_Name_Load(visit_expr(S, Value(p)), Target(p)), p)

\* visit_Import once dalias is in chains
visit_Import_alias(S, alias) ==
  locals_append(set_definition(S, NodeId(module, alias), <<S.chains[alias]>>),
                Last(S.scopes), S.chains[alias])

visit_Import(S, p) == visit_Import_alias(chains_setdefault(S, Target(p)), Target(p))

\* visit_ImportFrom: the same two calls, under alias.asname or alias.name
visit_ImportFrom(S, p) ==
  visit_Import_alias(chains_setdefault(S, Target(p)), Target(p))

\* visit_Lambda, DeclarationStep: nothing is appended to self._defered
visit_Lambda_Declaration(S, node) == chains_setdefault(S, node)

visit_Global(S, p) ==
  [S EXCEPT !.globals[Len(S.globals)] = @ \cup {Sub(module, p).n}]

\* the scan of visit_Nonlocal were it to start from the module layer
enclosing_definition_outermost(S, nm, i) ==
  IF \A j \in 1..i : nm \notin DOMAIN S.layers[S.definitions[j]] THEN 0
  ELSE S.definitions[CHOOSE j \in 1..i :
                       /\ nm \in DOMAIN S.layers[S.definitions[j]]
                       /\ \A k \in 1..(j - 1) :
                            nm \notin DOMAIN S.layers[S.definitions[k]]]

RECURSIVE enclosing_definition(_, _, _)
\* for d in reversed(self._definitions[:-1]): the first layer, from the
\* i-th of the stack down, that holds nm; 0 when the loop ends without break
enclosing_definition(S, nm, i) ==
  IF i = 0 THEN 0
  ELSE IF nm \in DOMAIN S.layers[S.definitions[i]] THEN S.definitions[i]
  ELSE enclosing_definition(S, nm, i - 1)

\* the body of the loop over node.names, d the layer found
visit_Nonlocal_name(S, nm, node, d) ==
  IF d = 0 THEN unbound_identifier(S, nm, node)
  ELSE set_definition(S, nm, S.osets[S.layers[d][nm]])

visit_Nonlocal(S, p) ==
  visit_Nonlocal_name(S, Sub(module, p).n, p,
    enclosing_definition(S, Sub(module, p).n, Len(S.definitions) - 1))

\* the top layer added to a carrier, entry by entry
Drained(S, carrier) ==
  LET top == LayerVals(S, TopLayer(S))
  IN [nm \in DOMAIN carrier \cup DOMAIN top |->
        IF nm \in DOMAIN top THEN carrier_add(carrier, nm, top[nm])[nm]
        ELSE carrier[nm]]

visit_Break(S) ==
  [S EXCEPT !.breaks[Len(S.breaks)] = Drained(S, @),
            !.layers[TopLayer(S)] = EmptyDict]

visit_Continue(S) ==
  [S EXCEPT !.continues[Len(S.continues)] = Drained(S, @),
            !.layers[TopLayer(S)] = EmptyDict]

\* dnode = self.chains.setdefault(node, Def(node));
\* self.locals[self._scopes[-1]].append(dnode)
declare(S, p) == locals_append(S, Last(S.scopes), S.chains[p])

\* visit_FunctionDef were it to queue the declaration at the head of
\* self._defered
defer_first(S, p) ==
  [S EXCEPT !.defered = <<[fnode |-> p] @@ Stacks(S)>> \o @]

\* self._defered.append((node, list(self._definitions), ...))
defer(S, p) == [S EXCEPT !.defered = Append(@, [fnode |-> p] @@ Stacks(S))]

\* for decorator in node.decorator_list: self.visit(decorator)
visit_decorators(S, p) ==
  IF Sub(module, p).d # "" THEN visit_Name_Load(S, Decorator(p)) ELSE S

\* self.visit(default).add_user(dnode), on the state after the visit
default_add_user(S, p) == add_user(S, S.chains[Default(p)], S.chains[p])

\* for default in node.args.defaults: self.visit(default).add_user(dnode)
visit_defaults(S, p) ==
  IF Sub(module, p).e # "" THEN default_add_user(visit_Name_Load(S, Default(p)), p)
  ELSE S

\* if node.returns: self.visit(node.returns)
visit_returns(S, p) ==
  IF Sub(module, p).r # "" THEN visit_Name_Load(S, Returns(p)) ELSE S

\* visit_FunctionDef, DeclarationStep
visit_FunctionDef_Declaration(S, p) ==
  defer(set_definition(
          visit_returns(
            visit_decorators(
              visit_defaults(declare(chains_setdefault(S, p), p), p), p), p),
          Sub(module, p).n, <<NodeDef(p)>>), p)

\* self.set_definition("__class__", Def("__class__"))
set_class_cell(S) ==
  set_definition([S EXCEPT !.nsynth = @ + 1], "__class__",
                 <<ClassCell(S.nsynth + 1)>>)

\* visit_ClassDef were it to install the name of the class before the body
visit_ClassDef_Enter_named(S, p) ==
  set_class_cell(
    ScopeContextEnter(
      set_definition(declare(chains_setdefault(S, p), p),
                     Sub(module, p).n, <<NodeDef(p)>>), p))

visit_ClassDef_Enter(S, p) ==
  set_class_cell(ScopeContextEnter(declare(chains_setdefault(S, p), p), p))

visit_ClassDef_Exit(S, p) ==
  set_definition(ScopeContextExit(S), Sub(module, p).n, <<S.chains[p]>>)

(***************************************************************************)
(* process_undefs.  An undef frame is a dict in insertion order: a list of *)
(* [nm, lst] where lst lists the (Def, stars) registered under nm.         *)
(***************************************************************************)
\* a variant that leaves the users of the pending Defs where they are
undefs_users_dropped(S, newdef, lst) == S

RECURSIVE undefs_users(_, _, _)
\* for undef, _ in lst: for user in undef.users(): newdef.add_user(user)
undefs_users(S, newdef, lst) ==
  IF lst = <<>> THEN S
  ELSE undefs_users(add_users_of(S, newdef, Head(lst).d), newdef, Tail(lst))

RECURSIVE undefs_newdefs(_, _, _)
undefs_newdefs(S, newdefs, lst) ==
  IF newdefs = <<>> THEN S
  ELSE undefs_newdefs(undefs_users(S, Head(newdefs), lst), Tail(newdefs), lst)

RECURSIVE undefs_unbound(_, _, _)
undefs_unbound(S, nm, lst) ==
  IF lst = <<>> THEN S
  ELSE undefs_unbound(IF Head(lst).stars = <<>>
                      THEN unbound_identifier(S, nm, Head(lst).d.n) ELSE S,
                      nm, Tail(lst))

RECURSIVE undefs_items(_, _)
undefs_items(S, frame) ==
  IF frame = <<>> THEN S
  ELSE LET e == Head(frame)
           top == S.layers[TopLayer(S)]
       IN undefs_items(IF e.nm \in DOMAIN top
                       THEN undefs_newdefs(S, S.osets[top[e.nm]], e.lst)
                       ELSE undefs_unbound(S, e.nm, e.lst),
                       Tail(frame))

process_undefs(S) ==
  [undefs_items(S, Last(S.undefs)) EXCEPT !.undefs = Front(@)]

(***************************************************************************)
(* Merges at the end of a compound statement.                              *)
(***************************************************************************)
RECURSIVE extend_layer(_, _, _)
\* for d, u in layer.items(): self.extend_definition(d, u)
extend_layer(S, lid, keys) ==
  IF keys = {} THEN S
  ELSE LET k == CHOOSE x \in keys : TRUE
       IN extend_layer(extend_definition(S, k, S.osets[S.layers[lid][k]]),
                       lid, keys \ {k})

\* the loop of visit_If over body_defs were it to extend in both cases
if_merge_body_extends(S, body_defs, orelse_defs, keys) ==
  extend_layer(extend_layer(S, body_defs, keys), orelse_defs,
               keys \cap DOMAIN S.layers[orelse_defs])

RECURSIVE if_merge_body(_, _, _, _)
\* the loop of visit_If over body_defs
if_merge_body(S, body_defs, orelse_defs, keys) ==
  IF keys = {} THEN S
  ELSE LET d == CHOOSE x \in keys : TRUE
           b == S.osets[S.layers[body_defs][d]]
           S1 == IF d \in DOMAIN S.layers[orelse_defs]
                 THEN set_definition(S, d,
                        os_update(b, S.osets[S.layers[orelse_defs][d]]))
                 ELSE extend_definition(S, d, b)
       IN if_merge_body(S1, body_defs, orelse_defs, keys \ {d})

if_merge(S, body_defs, orelse_defs) ==
  extend_layer(if_merge_body(S, body_defs, orelse_defs, DOMAIN S.layers[body_defs]),
               orelse_defs,
               DOMAIN S.layers[orelse_defs] \ DOMAIN S.layers[body_defs])

\* continue_defs = self._continues.pop(); extend; self._continues.append(...)
continues_into_body(S) ==
  [extend_all(S, Last(S.continues), DOMAIN Last(S.continues))
     EXCEPT !.continues[Len(S.continues)] = EmptyDict]

\* with self.DefinitionContext(self._definitions[-1].copy())
DefinitionContextCopy(S) == DefinitionContextEnter(S, TopCopy(S))

\* the local variables of visit_For and visit_While a frame holds
LoopLocals(body_defs, continue_defs) ==
  [body_defs |-> body_defs, continue_defs |-> continue_defs]

loop_carriers_push(S) ==
  [S EXCEPT !.breaks = Append(@, EmptyDict),
            !.continues = Append(@, EmptyDict),
            !.undefs = Append(@, <<>>)]

(***************************************************************************)
(* The walk.  A frame of `stack` is either a call of process_body          *)
(*   [k |-> "body", p, f, i, dead]: statement list f of node p, at its     *)
(*   i-th statement, `dead` the local flag of process_body,                *)
(* or the rest of the method that called it, [k |-> <where>, p, x].        *)
(* The statements of an except handler (lists 3, 4) are visited one by one by *)
(* generic_visit, there being no visit_ExceptHandler: the frame is the     *)
(* loop of generic_visit over them, which keeps no dead-code flag.         *)
(***************************************************************************)
Body(p, f) == [k |-> "body", p |-> p, f |-> f, i |-> 1, dead |-> FALSE]

Cont(k, p, x) == [k |-> k, p |-> p, x |-> x]

Top == stack[1]

CurList == StmtList(module, Top.p, Top.f)

CurPath == Top.p \o <<Top.f, Top.i>>

\* process_body is about to visit a statement of type k
AtStmt(k) ==
  /\ pc = "run" /\ stack # <<>> /\ Top.k = "body"
  /\ Top.i <= Len(CurList) /\ CurList[Top.i].k = k

\* the statement visited returns to process_body
Return(S) ==
  /\ Becomes(S)
  /\ stack' = <<[Top EXCEPT !.i = @ + 1]>> \o Tail(stack)
  /\ UNCHANGED <<module, usedef, pc>>

\* the statement visited calls process_body on list f of p; rest is where it resumes
Call(S, p, f, rest) ==
  /\ Becomes(S)
  /\ stack' = <<Body(p, f), rest, [Top EXCEPT !.i = @ + 1]>> \o Tail(stack)
  /\ UNCHANGED <<module, usedef, pc>>

\* process_body has visited its last statement and returns to frame k
BodyDone(k) ==
  /\ pc = "run" /\ Len(stack) >= 2 /\ Top.k = "body"
  /\ Top.i > Len(CurList) /\ stack[2].k = k

\* the end of process_body
Ended == IF Top.dead THEN [Self EXCEPT !.deadcode = @ - 1] ELSE Self

\* the statement list is one that generic_visit walks
Generic == Top.f \in {3, 4}

\* process_body meets a Break, Continue or Raise
Deadened ==
  IF Top.dead \/ Generic THEN Self ELSE [Self EXCEPT !.deadcode = @ + 1]

ReturnDead(S) ==
  /\ Becomes(S)
  /\ stack' = <<[Top EXCEPT !.i = @ + 1, !.dead = ~Generic]>> \o Tail(stack)
  /\ UNCHANGED <<module, usedef, pc>>

\* the method resumed calls process_body again
Resume(S, p, f, rest) ==
  /\ Becomes(S)
  /\ stack' = <<Body(p, f), rest>> \o SubSeq(stack, 3, Len(stack))
  /\ UNCHANGED <<module, usedef, pc>>

\* the method resumed returns
Finish(S) ==
  /\ Becomes(S)
  /\ stack' = SubSeq(stack, 3, Len(stack))
  /\ UNCHANGED <<module, usedef, pc>>

StepAssign == AtStmt("Assign") /\ Return(visit_Assign(Self, CurPath))

StepExpr == AtStmt("Expr") /\ Return(visit_Expr(Self, CurPath))

StepAugAssign == AtStmt("AugAssign") /\ Return(visit_AugAssign(Self, CurPath))

StepImport == AtStmt("Import") /\ Return(visit_Import(Self, CurPath))

StepImportFrom == AtStmt("ImportFrom") /\ Return(visit_ImportFrom(Self, CurPath))

\* visit_Expr of a lambda
StepLambda ==
  AtStmt("Lambda") /\ Return(visit_Lambda_Declaration(Self, Value(CurPath)))

StepGlobal == AtStmt("Global") /\ Return(visit_Global(Self, CurPath))

StepNonlocal == AtStmt("Nonlocal") /\ Return(visit_Nonlocal(Self, CurPath))

StepRaise == AtStmt("Raise") /\ ReturnDead(Deadened)

StepBreak == AtStmt("Break") /\ ReturnDead(visit_Break(Deadened))

StepContinue == AtStmt("Continue") /\ ReturnDead(visit_Continue(Deadened))

StepFunctionDef ==
  AtStmt("FunctionDef") /\ Return(visit_FunctionDef_Declaration(Self, CurPath))

StepClassDef ==
  /\ AtStmt("ClassDef")
  /\ Call(visit_ClassDef_Enter(Self, CurPath), CurPath, 1,
          Cont("ClassDef", CurPath, <<>>))

StepClassDefEnd ==
  /\ BodyDone("ClassDef")
  /\ Finish(visit_ClassDef_Exit(Ended, stack[2].p))

\* visit_If up to process_body(node.body)
StepIf ==
  /\ AtStmt("If")
  /\ Call(DefinitionContextCopy(visit_Constant(Self, Value(CurPath))),
          CurPath, 1, Cont("If_body", CurPath, <<>>))

\* visit_If from the end of the body arm to process_body(node.orelse)
StepIfBody ==
  /\ BodyDone("If_body")
  /\ Resume(DefinitionContextCopy(DefinitionContextExit(Ended)), stack[2].p, 2,
            Cont("If_orelse", stack[2].p, TopLayer(Ended)))

\* visit_If from the end of the orelse arm
StepIfOrelse ==
  /\ BodyDone("If_orelse")
  /\ Finish(if_merge(DefinitionContextExit(Ended), stack[2].x, TopLayer(Ended)))

\* visit_Try up to process_body(node.body)
StepTry ==
  /\ AtStmt("Try")
  /\ Call(DefinitionContextCopy(Self), CurPath, 1, Cont("Try_body", CurPath, <<>>))

\* visit_Try: process_body(node.orelse), in the same context
StepTryBody ==
  /\ BodyDone("Try_body")
  /\ Resume(Ended, stack[2].p, 2, Cont("Try_orelse", stack[2].p, <<>>))

\* visit_Try from the end of the else clause to the visit of the handler
StepTryOrelse ==
  /\ BodyDone("Try_orelse")
  /\ Resume(DefinitionContextEnter(
              extend_layer(DefinitionContextExit(Ended), TopLayer(Ended),
                           DOMAIN Ended.layers[TopLayer(Ended)]),
              EmptyDict),
            stack[2].p, 3, Cont("Try_handler", stack[2].p, <<>>))

\* the end of a handler were what it defined not handed to the outer layer
handler_merge_dropped(S) == DefinitionContextExit(S)

\* the end of `with self.DefinitionContext(...) as handler_def` and the
\* loop over handler_def that follows it
handler_merge(S) ==
  extend_layer(DefinitionContextExit(S), TopLayer(S), DOMAIN S.layers[TopLayer(S)])

\* visit_Try from the end of the first handler: to the second one if there
\* is one; node.finalbody is empty
StepTryHandler ==
  /\ BodyDone("Try_handler")
  /\ IF Sub(module, stack[2].p).g = <<>> THEN Finish(handler_merge(Self))
     ELSE Resume(DefinitionContextEnter(handler_merge(Self), EmptyDict),
                 stack[2].p, 4, Cont("Try_handlers", stack[2].p, <<>>))

\* visit_Try from the end of the second handler
StepTryHandlers ==
  /\ BodyDone("Try_handlers")
  /\ Finish(handler_merge(Self))

\* visit_For up to the first process_body(node.body)
StepFor ==
  /\ AtStmt("For")
  /\ Call(visit_Name_Store(
            DefinitionContextCopy(
              loop_carriers_push(visit_Constant(Self, Value(CurPath)))),
            Target(CurPath)),
          CurPath, 1, Cont("For_pass1", CurPath, <<>>))

\* visit_For from process_undefs to the second process_body(node.body)
StepForPass1 ==
  /\ BodyDone("For_pass1")
  /\ Resume(visit_Name_Store(continues_into_body(process_undefs(Ended)),
                             Target(stack[2].p)),
            stack[2].p, 1,
            Cont("For_pass2", stack[2].p,
                 LoopLocals(TopLayer(Ended), Last(Ended.continues))))

\* visit_For: the else clause
StepForPass2 ==
  /\ BodyDone("For_pass2")
  /\ Resume(DefinitionContextEnter(Ended, EmptyDict), stack[2].p, 2,
            Cont("For_orelse", stack[2].p, stack[2].x))

\* one of the four merges that end a loop; L holds the four dicts
\* (L.body and L.orelse are layers, L.break and L.continue carriers)
loop_merge_one(S, what, L) ==
  IF what \in {"body", "orelse"}
  THEN extend_layer(S, L[what], DOMAIN S.layers[L[what]])
  ELSE extend_all(S, L[what], DOMAIN L[what])

\* the four merges that end a loop, in the order given
loop_merge(S, order, body_defs, orelse_defs, break_defs, continue_defs) ==
  loop_merge_one(
    loop_merge_one(
      loop_merge_one(
        loop_merge_one(S, order[1],
          [body |-> body_defs, orelse |-> orelse_defs,
           break |-> break_defs, continue |-> continue_defs]),
        order[2],
        [body |-> body_defs, orelse |-> orelse_defs,
         break |-> break_defs, continue |-> continue_defs]),
      order[3],
      [body |-> body_defs, orelse |-> orelse_defs,
       break |-> break_defs, continue |-> continue_defs]),
    order[4],
    [body |-> body_defs, orelse |-> orelse_defs,
     break |-> break_defs, continue |-> continue_defs])

\* both loops: leave the else and body contexts, pop the carriers
loop_exit(S) ==
  [DefinitionContextExit(DefinitionContextExit(S))
     EXCEPT !.breaks = Front(@), !.continues = Front(@)]

\* visit_For from the end of the else clause
StepForOrelse ==
  /\ BodyDone("For_orelse")
  /\ Finish(loop_merge(loop_exit(Ended),
                       <<"orelse", "continue", "break", "body">>,
                       stack[2].x.body_defs, TopLayer(Ended),
                       Last(Ended.breaks), Last(Ended.continues)))

\* visit_While up to the first process_body(node.orelse)
StepWhile ==
  /\ AtStmt("While")
  /\ Call(loop_carriers_push(DefinitionContextCopy(Self)),
          CurPath, 2, Cont("While_else0", CurPath, <<>>))

\* visit_While from the end of that pass to the first process_body(node.body)
StepWhileElse0 ==
  /\ BodyDone("While_else0")
  /\ Resume(visit_expr(DefinitionContextCopy(DefinitionContextExit(Ended)),
                       Value(stack[2].p)),
            stack[2].p, 1, Cont("While_pass1", stack[2].p, <<>>))

\* visit_While from process_undefs to the second process_body(node.body)
StepWhilePass1 ==
  /\ BodyDone("While_pass1")
  /\ Resume(visit_expr(continues_into_body(process_undefs(Ended)),
                       Value(stack[2].p)),
            stack[2].p, 1,
            Cont("While_pass2", stack[2].p,
                 LoopLocals(TopLayer(Ended), Last(Ended.continues))))

\* visit_While: the false branch of the test, then the else clause
StepWhilePass2 ==
  /\ BodyDone("While_pass2")
  /\ Resume(DefinitionContextCopy(visit_expr(Ended, Value(stack[2].p))),
            stack[2].p, 2, Cont("While_orelse", stack[2].p, stack[2].x))

\* visit_While from the end of the else clause
StepWhileOrelse ==
  /\ BodyDone("While_orelse")
  /\ Finish(loop_merge(loop_exit(Ended),
                       <<"continue", "break", "orelse", "body">>,
                       stack[2].x.body_defs, TopLayer(Ended),
                       Last(Ended.breaks), Last(Ended.continues)))

(***************************************************************************)
(* visit_Module.                                                           *)
(***************************************************************************)
RECURSIVE seed_builtins(_, _)
\* self._definitions[-1].update({k: ordered_set((v,)) for k, v in builtins})
seed_builtins(S, names) ==
  IF names = {} THEN S
  ELSE LET k == CHOOSE x \in names : TRUE
       IN seed_builtins(
            [S EXCEPT !.osets = Append(@, <<BuiltinDef(k)>>),
                      !.layers[TopLayer(S)] = DictSet(@, k, Len(S.osets) + 1)],
            names \ {k})

\* visit_Module up to process_body(node.body)
StepModule ==
  /\ pc = "init"
  /\ Becomes(seed_builtins(ScopeContextEnter(Self, ModulePath), Builtins))
  /\ stack' = <<Body(ModulePath, 1), Cont("Module_body", ModulePath, <<>>)>>
  /\ pc' = "run"
  /\ UNCHANGED <<module, usedef>>

\* the module body is done: start of the loop over self._defered
StepModuleBody ==
  /\ BodyDone("Module_body")
  /\ Becomes(Ended)
  /\ stack' = <<[k |-> "defered", i |-> 1]>>
  /\ UNCHANGED <<module, usedef, pc>>

\* self.visit(node.args): the parameter, if there is one
visit_arguments(S, fnode) ==
  IF Sub(module, fnode).v # "" THEN visit_Name_Store(S, Param(fnode)) ELSE S

\* one iteration of the loop over self._defered up to process_body(node.body)
StepDefered ==
  /\ pc = "run" /\ stack # <<>> /\ Top.k = "defered"
  /\ Top.i <= Len(defered)
  /\ Becomes(visit_arguments(
               ScopeContextEnter(SwitchScopeContextEnter(Self, defered[Top.i]),
                                 defered[Top.i].fnode),
               defered[Top.i].fnode))
  /\ stack' = <<Body(defered[Top.i].fnode, 1),
                Cont("FunctionDef", defered[Top.i].fnode, Stacks(Self)),
                [Top EXCEPT !.i = @ + 1]>>
  /\ UNCHANGED <<module, usedef, pc>>

\* visit_FunctionDef, DefinitionStep, from the end of the body
StepFunctionDefEnd ==
  /\ BodyDone("FunctionDef")
  /\ Finish(SwitchScopeContextExit(ScopeContextExit(Ended), stack[2].x))

\* the sanity checks of visit_Module, inside the ScopeContext
SanityChecks(S) ==
  LET heads == {name(module, d) : d \in Range(LocalsOf(S, ModulePath))}
      overloaded_builtins == heads \cap Builtins
      base == DOMAIN S.layers[S.definitions[1]]
  IN /\ heads \subseteq base
     /\ Cardinality(base) = Cardinality(heads) + Cardinality(Builtins)
                            - Cardinality(overloaded_builtins)

\* the asserts that follow the ScopeContext
StacksEmpty(S) ==
  /\ S.definitions = <<>> /\ S.scopes = <<>>
  /\ S.scope_depths = <<>> /\ S.precomputed_locals = <<>>

\* visit_Module after the loop over self._defered
StepModuleEnd ==
  /\ pc = "run" /\ stack # <<>> /\ Top.k = "defered"
  /\ Top.i > Len(defered)
  /\ IF SanityChecks(Self)
     THEN /\ Becomes(ScopeContextExit(Self))
          /\ pc' = IF StacksEmpty(ScopeContextExit(Self)) THEN "done"
                   ELSE "unbalanced"
     ELSE /\ Becomes(Self)
          /\ pc' = "failed"
  /\ stack' = <<>>
  /\ UNCHANGED <<module, usedef>>

(***************************************************************************)
(* UseDefChains: the chains inverted, node -> list of Defs.                *)
(***************************************************************************)
\* self.chains.setdefault(node, [])
usedef_setdefault(ud, node) ==
  IF node \in DOMAIN ud THEN ud ELSE DictSet(ud, node, <<>>)

RECURSIVE usedef_uses(_, _, _)
\* for use in chain.users(): self.chains.setdefault(use.node, []).append(chain)
usedef_uses(ud, chain, uses) ==
  IF uses = <<>> THEN ud
  ELSE LET node == Head(uses).n
           ud1 == usedef_setdefault(ud, node)
       IN usedef_uses(DictSet(ud1, node, Append(ud1[node], chain)),
                      chain, Tail(uses))

RECURSIVE usedef_chains(_, _, _)
\* the loop over defuses.chains.values()
usedef_chains(S, ud, keys) ==
  IF keys = <<>> THEN ud
  ELSE LET chain == S.chains[Head(keys)]
           ud1 == IF NodeType(module, chain.n) = "Name"
                  THEN usedef_setdefault(ud, chain.n) ELSE ud
       IN usedef_chains(S, usedef_uses(ud1, chain, UsersOf(S, chain)), Tail(keys))

\* UseDefChains.__init__ were the loop over the builtins left out
usedef_builtins_none(S, ud, names) == ud

RECURSIVE usedef_builtins(_, _, _)
\* the loop over defuses._builtins.values()
usedef_builtins(S, ud, names) ==
  IF names = {} THEN ud
  ELSE LET k == CHOOSE x \in names : TRUE
       IN usedef_builtins(S, usedef_uses(ud, BuiltinDef(k), UsersOf(S, BuiltinDef(k))),
                          names \ {k})

\* UseDefChains.__init__
UseDefChains(S) ==
  usedef_builtins(S, usedef_chains(S, EmptyDict, S.chain_keys), Builtins)

\* UseDefChains(self), after visit has returned
StepUseDefChains ==
  /\ pc = "done"
  /\ usedef' = UseDefChains(Self)
  /\ pc' = "inverted"
  /\ UNCHANGED <<module, chains, chain_keys, users, locals, layers, osets,
                 definitions, scope_depths, globals, precomputed_locals,
                 undefs, scopes, breaks, continues, deadcode, defered, diags,
                 nsynth, stack>>

(***************************************************************************)
(* The modules analysed: every statement list up to a length over a few    *)
(* statements on the name "a", on its own, in and around a branch, a loop  *)
(* and a scope.                                                            *)
(***************************************************************************)
\* longest list of simple statements
MaxLen == 3

\* longest arm of an if, longest body of a def or class
MaxArm == 2

Lists(S, n) == UNION {[1..k -> S] : k \in 0..n}

W == Assign("a", "")

R == Expr("a")

Simple ==
  {W, R, Raise, Assign("a", "a"), Assign("len", ""), Expr("len"),
   AugAssign("a"), Import("a")}

\* straight-line code at module level, in a function and in a class
StraightLine ==
  LET ls == Lists(Simple, MaxLen)
  IN {Module(l) : l \in ls}
     \cup {Module(<<Global("a")>> \o l) : l \in ls}
     \cup {Module(<<FunctionDef("f", "", l)>>) : l \in ls}
     \cup {Module(<<FunctionDef("f", "", <<Global("a")>> \o l)>>) : l \in ls}
     \cup {Module(<<ClassDef("C", l)>>) : l \in ls}

Before == {<<>>, <<W>>, <<Global("a")>>, <<Global("a"), W>>}

Arms ==
  Lists({W, R, Raise}, MaxArm)
  \cup {<<If(<<W>>, <<>>)>>, <<If(<<W>>, <<W>>)>>, <<While("", <<W>>, <<>>)>>,
        <<ClassDef("C", <<Global("a"), W>>)>>}

\* an if between a store and a read
Branches ==
  {Module(pre \o <<If(b, o), R>>) : pre \in Before, b \in Arms, o \in Arms}

Exits ==
  {If(<<Break>>, <<>>), If(<<Continue>>, <<>>), If(<<W, Break>>, <<>>),
   If(<<W, Continue>>, <<>>), If(<<W>>, <<Break>>)}

Bodies ==
  Lists({W, R, Raise, Break, Continue}, MaxLen)
  \cup {pre \o <<e>> \o post :
          pre \in Lists({W, R}, 1), e \in Exits, post \in Lists({W, R}, 1)}
  \cup {<<Import("a")>>, <<R, Import("a")>>, <<AugAssign("a")>>}

\* a loop between a store and a read
Loops ==
  {Module(pre \o <<For(n, b, o), R>>) :
     pre \in {<<>>, <<W>>}, n \in {"a", "i"}, b \in Bodies, o \in {<<>>, <<W>>}}
  \cup {Module(pre \o <<While(v, b, o), R>>) :
     pre \in {<<>>, <<W>>}, v \in {"", "a"}, b \in Bodies, o \in {<<>>, <<W>>}}

Inner == Lists({W, R, Expr("__class__")}, MaxArm)

Nested ==
  {FunctionDef("f", a, l) : a \in {"", "a"}, l \in Inner}
  \cup {ClassDef("C", l) : l \in Inner}
  \cup {ClassDef("C", <<FunctionDef("f", "", l)>>) : l \in Inner}
  \cup {FunctionDef("f", "", <<ClassDef("C", l)>>) : l \in Inner}
  \cup {FunctionDef("f", "", <<FunctionDef("g", "", l)>>) : l \in Inner}
  \cup {FunctionDef("f", "", <<Global("a"), ClassDef("C", l)>>) : l \in Inner}

\* a def or a class on its own, in dead code, in a loop and in a branch
Scopes ==
  {Module(<<d>>) : d \in Nested}
  \cup {Module(<<W, d, R>>) : d \in Nested}
  \cup {Module(<<Raise, d>>) : d \in Nested}
  \cup {Module(<<For("i", <<d>>, <<>>)>>) : d \in Nested}
  \cup {Module(<<If(<<d>>, <<>>)>>) : d \in Nested}
  \cup {Module(<<Assign("f", ""), Raise, d>>) : d \in Nested}

Inners ==
  {For("i", b, e) : b \in {<<>>, <<R>>}, e \in {<<W, Break>>, <<W, Continue>>, <<W>>}}
  \cup {While("", b, e) : b \in {<<>>, <<R>>}, e \in {<<W, Break>>, <<W, Continue>>, <<W>>}}

\* a loop in the body of a loop, with an else clause that may leave or
\* resume the outer loop
NestedLoops ==
  {Module(<<W, While("", pre \o <<s>> \o post, <<>>), R>>) :
     pre \in Lists({W}, 1), s \in Inners, post \in Lists({W}, 1)}
  \cup {Module(<<W, For("i", pre \o <<s>> \o post, <<W>>), R>>) :
     pre \in Lists({W}, 1), s \in Inners, post \in Lists({W}, 1)}

Compound ==
  {For("a", <<W>>, <<W>>), While("a", <<W, Break>>, <<>>),
   If(<<W>>, <<Import("a")>>), ClassDef("a", <<W>>)}

\* a compound statement after a raise or a continue
Dead ==
  {Module(<<W, Raise, s, R>>) : s \in Compound}
  \cup {Module(<<FunctionDef("f", "", <<Raise, s, R>>)>>) : s \in Compound}
  \cup {Module(<<For("i", <<Continue, s>>, <<>>), R>>) : s \in Compound}

Readers ==
  {FunctionDef("f", "", <<R>>), FunctionDef("f", "", <<R, W>>),
   FunctionDef("f", "a", <<R>>), FunctionDef("f", "", <<Expr("__class__")>>),
   ClassDef("D", <<R>>), ClassDef("D", <<R, W>>),
   ClassDef("D", <<FunctionDef("f", "", <<R>>)>>), Lambda("", "a")}

\* a read in a function, a class or a lambda nested in a class, the class at
\* module level or in a function
ClassScopes ==
  {Module(pre \o <<ClassDef("C", cpre \o <<r>>)>> \o post) :
     pre \in Lists({W}, 1), cpre \in Lists({W}, 1), r \in Readers,
     post \in Lists({W}, 1)}
  \cup {Module(mpre \o <<FunctionDef("g", "", pre \o <<ClassDef("C", <<W, r>>)>> \o post)>>) :
          mpre \in Lists({W}, 1), pre \in Lists({W}, 1), r \in Readers,
          post \in {<<>>, <<W>>, <<Raise, W>>}}

\* a class that reads a name it binds later, at module level, in a function
\* and in a loop, after a store or a wildcard import or nothing
ClassReads ==
  {Module(mpre \o <<FunctionDef("g", "", gpre \o <<ClassDef("C", <<c, W>>)>>)>>) :
     mpre \in {<<>>, <<W>>, <<ImportFrom("*")>>}, gpre \in Lists({W}, 1),
     c \in {R, AugAssign("a")}}
  \cup {Module(mpre \o <<ClassDef("C", <<c, W>>)>>) :
          mpre \in {<<>>, <<W>>, <<ImportFrom("*")>>, <<ImportFrom("*"), W>>},
          c \in {R, AugAssign("a")}}
  \cup {Module(<<For("i", <<ClassDef("C", <<R, W>>)>> \o post, <<>>)>>) :
          post \in Lists({W}, 1)}

\* statement d on its own, in an if arm, in a loop body and in each part of
\* a try statement
Placed(d) ==
  {<<d>>, <<If(<<d>>, <<>>)>>, <<If(<<>>, <<d>>)>>, <<For("i", <<d>>, <<>>)>>,
   <<While("", <<d>>, <<>>)>>, <<Try(<<d>>, <<>>, <<>>)>>,
   <<Try(<<>>, <<d>>, <<>>)>>, <<Try(<<>>, <<>>, <<d>>)>>}

\* the declaration of a function that reads a free name, between two stores
\* of the name, in the module and in a function
Forward ==
  {Module(pre \o decl \o post) :
     pre, post \in Lists({W}, 1), decl \in Placed(FunctionDef("f", "", <<R>>))}
  \cup {Module(<<FunctionDef("g", "", pre \o decl \o post)>>) :
          pre, post \in Lists({W}, 1), decl \in Placed(FunctionDef("f", "", <<R>>))}

\* one statement of every kind
Sample ==
  {R, W, AugAssign("a"), Import("a"), ImportFrom("*"), Global("a"), Raise,
   Nonlocal("a"), Lambda("", "a"), ClassDef("C", <<R>>),
   FunctionDef("h", "", <<R>>), For("i", <<Break>>, <<W>>),
   While("a", <<Continue>>, <<>>), TryExcepts(<<W>>, <<R>>, <<W>>, <<>>)}

\* two functions in a row, whose bodies wait in the queue together
Pairs ==
  {Module(<<FunctionDef("f", "", <<s>>), FunctionDef("g", "", <<t>>)>>) :
     s, t \in Sample}

\* a class whose body reads the name of the class, in a statement of the
\* body or in the decorator, default or annotation of a method, and then in
\* the body of a method; the class is placed as the functions of Forward
\* are, between stores of its name
ClassNames ==
  {Module(pre \o decl \o post) :
     pre, post \in Lists({Assign("C", "")}, 1),
     decl \in UNION {Placed(ClassDef("C", <<m, FunctionDef("f", "", <<Expr("C")>>)>>)) :
                       m \in {Expr("C"), Assign("a", "C"),
                              Decorated("C", "g", "", <<>>),
                              Defaulted("C", "g", "a", <<>>),
                              Annotated("C", "g", "", <<>>)}}}

\* a function that declares a global, binds it in each of the ways of the
\* model and reads it, after a store of the module or none
GlobalBindings ==
  {Module(pre \o <<FunctionDef("f", "", <<Global("a"), b, R>>), R>>) :
     pre \in Lists({W}, 1),
     b \in {W, AugAssign("a"), Import("a"), ImportFrom("a"), For("a", <<>>, <<>>),
            FunctionDef("a", "", <<>>), ClassDef("a", <<>>)}}

\* from m import *
Star == ImportFrom("*")

\* wildcard imports and stores, in the module and then in a function, a
\* class, an if arm or a loop body that reads, and a read of the module
Wildcards ==
  {Module(pre \o <<d>> \o <<R>>) :
     pre \in {<<>>, <<Star>>, <<Star, Star>>, <<W, Star>>, <<Star, W>>},
     d \in UNION {{FunctionDef("f", "", b), ClassDef("C", b), If(b, <<>>),
                   For("i", b, <<>>)} :
                    b \in {<<R>>, <<Star, R>>, <<Star, Star, R>>, <<W, Star, R>>,
                           <<Star, W, R>>}}}
  \cup {Module(<<Star, Star, Expr(v)>>) : v \in {"a", "len"}}

\* the bodies that declare a nonlocal and read it: at once, after a store
\* or an import of the name, in an assignment to it, from an if arm, in a
\* loop, in dead code
NonlocalBodies ==
  {<<Nonlocal("a"), R>>, <<Nonlocal("a"), W, R>>,
   <<Nonlocal("a"), Assign("a", "a")>>, <<Nonlocal("a"), Import("a"), R>>,
   <<If(<<Nonlocal("a")>>, <<>>), R>>, <<For("i", <<Nonlocal("a"), R>>, <<>>)>>,
   <<Raise, Nonlocal("a"), R>>}

\* a function, a class or a method of a class that binds the name, nested
\* in a function, with such a body; the function and the module bind the
\* name or not
Nonlocals ==
  {Module(pre \o <<FunctionDef("f", "", fpre \o <<inner>> \o fpost)>>) :
     pre \in {<<>>, <<W>>},
     fpre \in {<<>>, <<W>>, <<If(<<W>>, <<>>)>>},
     fpost \in {<<>>, <<W>>},
     inner \in UNION {{FunctionDef("g", "", b), ClassDef("C", b),
                       ClassDef("C", <<W, FunctionDef("g", "", b)>>)} :
                        b \in NonlocalBodies}}

\* an augmented assignment of the name, from a constant, another name or
\* the name itself, after no store, one store, two that both reach it, or a
\* wildcard import, and a read after it
AugAssignments ==
  {pre \o <<aug>> \o post :
     pre \in {<<>>, <<W>>, <<Star>>, <<W, Star>>, <<If(<<W>>, <<W>>)>>},
     aug \in {AugAssign("a"), AugAssignOf("a", "b"), AugAssignOf("a", "a")},
     post \in {<<>>, <<R>>}}

\* the same in the module, a function, a class, an if arm and a loop body
AugAssigns ==
  UNION {{Module(l), Module(<<FunctionDef("f", "", l)>>),
          Module(<<ClassDef("C", l)>>), Module(<<If(l, <<>>), R>>),
          Module(<<For("i", l, <<>>), R>>)} : l \in AugAssignments}

\* a try with two handlers and an else clause whose parts store the name,
\* raise or read, after a store or none, then a read: in the module, in a
\* function and in a class
Tries ==
  UNION {{Module(l), Module(<<FunctionDef("f", "", l)>>), Module(<<ClassDef("C", l)>>)} :
           l \in {pre \o <<TryExcepts(b, h, g, o), R>> :
                    pre \in {<<>>, <<W>>},
                    b \in {<<>>, <<W>>, <<W, Raise>>, <<Raise, W>>},
                    h \in {<<>>, <<W>>, <<W, Raise>>, <<R, W>>},
                    g \in {<<>>, <<W>>},
                    o \in {<<>>, <<W>>}}}

\* a compound statement that binds a in the body arm of an if, and a read
\* of a in the orelse arm
NestedArms ==
  {Module(pre \o <<If(<<s>>, <<R>>), R>>) :
     pre \in {<<>>, <<W>>},
     s \in {W, If(<<W>>, <<>>), For("i", <<W>>, <<>>), While("", <<W>>, <<>>),
            Try(<<W>>, <<>>, <<>>), Try(<<>>, <<W>>, <<>>)}}

Programs ==
  StraightLine \cup Branches \cup Loops \cup Scopes \cup NestedLoops \cup Dead
  \cup ClassScopes \cup ClassReads \cup Forward \cup Pairs \cup ClassNames
  \cup GlobalBindings \cup Wildcards \cup Nonlocals
  \cup AugAssigns \cup Tries \cup NestedArms

(***************************************************************************)
(* The state machine: a fresh DefUseChains instance, then visit(module).   *)
(***************************************************************************)
\* DefUseChains.__init__
Fresh ==
  /\ chains = EmptyDict /\ chain_keys = <<>>
  /\ users = EmptyDict /\ locals = EmptyDict
  /\ layers = <<>> /\ osets = <<>>
  /\ definitions = <<>> /\ scope_depths = <<>> /\ globals = <<>>
  /\ precomputed_locals = <<>> /\ undefs = <<>> /\ scopes = <<>>
  /\ breaks = <<>> /\ continues = <<>> /\ deadcode = 0
  /\ defered = <<>> /\ diags = <<>> /\ nsynth = 0
  /\ stack = <<>> /\ usedef = EmptyDict /\ pc = "init"

Init == module \in Programs /\ Fresh

Next ==
  \/ StepModule \/ StepModuleBody \/ StepDefered \/ StepFunctionDefEnd
  \/ StepModuleEnd
  \/ StepAssign \/ StepExpr \/ StepAugAssign \/ StepImport \/ StepGlobal
  \/ StepNonlocal
  \/ StepImportFrom \/ StepLambda
  \/ StepTry \/ StepTryBody \/ StepTryOrelse \/ StepTryHandler
  \/ StepTryHandlers
  \/ StepRaise \/ StepBreak \/ StepContinue
  \/ StepFunctionDef \/ StepClassDef \/ StepClassDefEnd
  \/ StepIf \/ StepIfBody \/ StepIfOrelse
  \/ StepFor \/ StepForPass1 \/ StepForPass2 \/ StepForOrelse
  \/ StepWhile \/ StepWhileElse0 \/ StepWhilePass1 \/ StepWhilePass2
  \/ StepWhileOrelse
  \/ StepUseDefChains

Spec == Init /\ [][Next]_vars

(***************************************************************************)
(* A third round over the body of a loop, run from the state the second    *)
(* round leaves and then undone: the walk goes on from the state and the   *)
(* frames it had when the second round ended.                              *)
(***************************************************************************)
\* a third round is under way
InThirdRound ==
  \E i \in DOMAIN stack : stack[i].k \in {"For_pass3", "While_pass3"}

\* what a third round starts from
Snapshot == [saved |-> Self, frames |-> stack]

\* the extra round of visit_For once more: the continue definitions are
\* handed to the body layer, the target and the body are visited
StepForRound3 ==
  /\ BodyDone("For_pass2") /\ ~InThirdRound
  /\ Resume(visit_Name_Store(continues_into_body(Ended), Target(stack[2].p)),
            stack[2].p, 1,
            Cont("For_pass3", stack[2].p, Snapshot))

\* the extra round of visit_While once more: the continue definitions are
\* handed to the body layer, the test and the body are visited
StepWhileRound3 ==
  /\ BodyDone("While_pass2") /\ ~InThirdRound
  /\ Resume(visit_expr(continues_into_body(Ended), Value(stack[2].p)),
            stack[2].p, 1,
            Cont("While_pass3", stack[2].p, Snapshot))

\* the third round has ended
Round3Done == BodyDone("For_pass3") \/ BodyDone("While_pass3")

\* back to the end of the second round
StepRound3Undone ==
  /\ Round3Done
  /\ Becomes(stack[2].x.saved)
  /\ stack' = stack[2].x.frames
  /\ UNCHANGED <<module, usedef, pc>>

NextRound3 == Next \/ StepForRound3 \/ StepWhileRound3 \/ StepRound3Undone

Round3Spec == Init /\ [][NextRound3]_vars

(***************************************************************************)
(* Vocabulary of the properties: positions in the module, what a statement *)
(* binds and reads, what a layer holds.                                    *)
(***************************************************************************)
RECURSIVE StmtPaths(_, _)
\* the paths of the statements below statement s, whose path is p
StmtPaths(s, p) ==
  UNION {{p \o <<1, i>>} \cup StmtPaths(s.b[i], p \o <<1, i>>) : i \in DOMAIN s.b}
  \cup UNION {{p \o <<2, i>>} \cup StmtPaths(s.o[i], p \o <<2, i>>) : i \in DOMAIN s.o}
  \cup UNION {{p \o <<3, i>>} \cup StmtPaths(s.h[i], p \o <<3, i>>) : i \in DOMAIN s.h}
  \cup UNION {{p \o <<4, i>>} \cup StmtPaths(s.g[i], p \o <<4, i>>) : i \in DOMAIN s.g}

Stmts == StmtPaths(module, <<>>)

RECURSIVE Within(_)
\* the statements of a list, nested ones included
Within(l) ==
  UNION {{l[i]} \cup Within(l[i].b) \cup Within(l[i].o) \cup Within(l[i].h)
           \cup Within(l[i].g) :
           i \in DOMAIN l}

\* the statement that holds the list statement p is in
Parent(p) == SubSeq(p, 1, Len(p) - 2)

\* the list statement p is in
ListOf(p) == StmtList(module, Parent(p), p[Len(p) - 1])

Jumps == {"Break", "Continue", "Raise"}

\* statement p follows a break, continue or raise of its own list
Killed(p) == \E j \in 1..(p[Len(p)] - 1) : ListOf(p)[j].k \in Jumps

RECURSIVE DeadNested(_)
\* statement p follows a jump in its list, or is nested in a statement that does
DeadNested(p) == p # <<>> /\ (Killed(p) \/ DeadNested(Parent(p)))

RECURSIVE DeadInline(_)
\* the same, the nesting followed up to the function whose body holds p
DeadInline(p) ==
  /\ p # <<>>
  /\ \/ Killed(p)
     \/ Sub(module, Parent(p)).k # "FunctionDef" /\ DeadInline(Parent(p))

\* statement s binds nm when it is executed
Binds(s, nm) ==
  s.k \in {"Assign", "AugAssign", "Import", "FunctionDef", "ClassDef"} /\ s.n = nm

\* the Def of what the statement at path p binds
StoreDef(p) ==
  IF Sub(module, p).k \in {"FunctionDef", "ClassDef"} THEN NodeDef(p)
  ELSE NodeDef(Target(p))

\* the name the statement s reads when it is visited, "" if none
ReadName(s) ==
  IF s.k \in {"Expr", "Assign"} THEN s.v
  ELSE IF s.k = "AugAssign" THEN s.n ELSE ""

\* the Name node the statement at path p reads
ReadNode(p) == IF Sub(module, p).k = "AugAssign" THEN Target(p) ELSE Value(p)

\* the name a Def defines
Binding(d) == IF d.t \in {"node", "undef"} THEN name(module, d) ELSE d.x

\* the definitions of nm that have u among their users
UsedBy(us, u, nm) == {d \in DOMAIN us : u \in Range(us[d]) /\ Binding(d) = nm}

\* the users of Def d in the users us
UsersIn(us, d) == IF d \in DOMAIN us THEN us[d] ELSE <<>>

\* the Defs layer lid holds for nm
Entry(ls, os, lid, nm) ==
  IF nm \in DOMAIN ls[lid] THEN Range(os[ls[lid][nm]]) ELSE {}

\* the Defs a breaks or continues carrier holds for nm
Carried(c, nm) == IF nm \in DOMAIN c THEN Range(c[nm]) ELSE {}

\* the names some layer binds
KnownNames == UNION {DOMAIN layers[l] : l \in DOMAIN layers}

\* the Defs some layer holds or held
Installed == UNION {Range(osets[i]) : i \in DOMAIN osets}

ChainValues == {chains[k] : k \in DOMAIN chains}

BuiltinDefs == {BuiltinDef(nm) : nm \in Builtins}

\* the Def wraps a node that lies in the statement at path p
Inside(d, p) ==
  d.t = "node" /\ Len(d.n) >= Len(p) /\ SubSeq(d.n, 1, Len(p)) = p

Count(s, x) == Cardinality({i \in DOMAIN s : s[i] = x})

Max(S) == CHOOSE x \in S : \A y \in S : y <= x

Returned == pc \in {"done", "inverted"}

(***************************************************************************)
(* C1.  visit returns normally.                                            *)
(***************************************************************************)
\* C1: for every module, visit with the default hook returns normally: the
\* closing sanity checks of visit_Module hold (every Def of locals[module]
\* has its name as a key of the module's base layer, and the number of keys
\* is the number of distinct local names plus the builtins less the rebound
\* builtins) and so do the asserts on the stacks; this includes the modules
\* with a store after a break, continue or raise.
C1_VisitReturns == pc \notin {"failed", "unbalanced"}

(***************************************************************************)
(* C2.  The stacks are empty once visit has returned.                      *)
(***************************************************************************)
\* C2: after visit returns, the scope stack, the definition-layer stack,
\* the scope-depth stack, the globals stack and the precomputed-locals stack
\* are all empty (and the asserts on them never raise).
C2_StacksEmpty ==
  /\ pc # "unbalanced"
  /\ Returned =>
       /\ scopes = <<>> /\ definitions = <<>> /\ scope_depths = <<>>
       /\ globals = <<>> /\ precomputed_locals = <<>>

\* visit has returned from a module with a function and a class
C2_Witness == pc = "done" /\ defered # <<>> /\ nsynth > 0 /\ globals = <<>>

(***************************************************************************)
(* C3.  locals[s] holds no Def twice.                                      *)
(***************************************************************************)
\* C3: at any point of the analysis and for every scope s, locals[s] never
\* contains the same Def twice, whatever the Def binds (assignment target,
\* parameter, import alias, function, class), definitions placed in a loop
\* body included.
C3_LocalsDistinct ==
  \A sc \in DOMAIN locals : \A d \in Range(locals[sc]) : Count(locals[sc], d) = 1

(***************************************************************************)
(* C4.  Reachability of a Def and of its users from chains.                *)
(***************************************************************************)
\* C4 as stated: after the analysis, for every Def d that has a user and
\* every user u of d, u is the value of chains for some node and so is d,
\* placeholder, builtin and __class__ Defs included.
C4_Original ==
  Returned =>
    \A d \in DOMAIN users :
      users[d] # <<>> => d \in ChainValues /\ Range(users[d]) \subseteq ChainValues

\* C4: after the analysis, for every Def d that has a user and every user u
\* of d, u is the value of chains for some node, and so is d unless d is a
\* builtin Def, the Def of __class__ or the placeholder of an unresolved
\* read; the node of a placeholder is a key of chains.
C4_Reachability ==
  Returned =>
    \A d \in DOMAIN users :
      users[d] # <<>> =>
        /\ Range(users[d]) \subseteq ChainValues
        /\ d.t = "node" => d \in ChainValues
        /\ d.t = "undef" => d.n \in DOMAIN chains

\* visit has returned and a builtin Def, a placeholder and the Def of a
\* store have users
C4_Witness ==
  /\ pc = "done"
  /\ \E d \in DOMAIN users : d.t = "builtin" /\ users[d] # <<>>
  /\ \E d \in DOMAIN users : d.t = "undef" /\ users[d] # <<>>
  /\ \E d \in DOMAIN users : d.t = "node" /\ users[d] # <<>>

(***************************************************************************)
(* C5.  UseDefChains inverts the chains.                                   *)
(***************************************************************************)
\* every Name node that has a Def in chains has an entry in the inverse
\* chains
NamesHaveEntries ==
  \A p \in DOMAIN chains : NodeType(module, p) = "Name" => p \in DOMAIN usedef

\* C5 as stated: for every Def d and every u in d.users(),
\* UseDefChains.chains[u.node] contains d, once; and every Name node that
\* has a Def in chains has an entry in the inverse chains.
C5_Original ==
  pc = "inverted" =>
    /\ \A d \in DOMAIN users : \A u \in Range(users[d]) :
         u.n \in DOMAIN usedef /\ Count(usedef[u.n], d) = 1
    /\ NamesHaveEntries

\* C5: for every Def d that chains or the builtins hold and every u in
\* d.users(), UseDefChains.chains[u.node] contains d exactly once; every
\* Name node that has a Def in chains has an entry in the inverse chains,
\* and an entry lists only Defs that have the Def of its node among their
\* users, so that it is empty when only a placeholder or the Def of
\* __class__ reaches the node.
C5_Inverse ==
  pc = "inverted" =>
    /\ \A d \in (ChainValues \cup BuiltinDefs) \cap DOMAIN users :
         \A u \in Range(users[d]) :
           u.n \in DOMAIN usedef /\ Count(usedef[u.n], d) = 1
    /\ NamesHaveEntries
    /\ \A p \in DOMAIN usedef : \A d \in Range(usedef[p]) :
         /\ d \in ChainValues \cup BuiltinDefs
         /\ \E u \in Range(UsersOf(Self, d)) : u.n = p

\* the inverse chains hold an entry of two Defs and the empty entry of an
\* unresolved read
C5_Witness ==
  /\ pc = "inverted"
  /\ \E p \in DOMAIN usedef : Len(usedef[p]) >= 2
  /\ \E p \in DOMAIN usedef : usedef[p] = <<>> /\ UsersOf(Self, UndefDef(p)) # <<>>

(***************************************************************************)
(* The scopes under way and the layers they own.                           *)
(***************************************************************************)
RECURSIVE LayersBelow(_)
\* the number of layers of the definition stack the scopes under the k-th
\* scope own
LayersBelow(k) == IF k = 1 THEN 0 ELSE LayersBelow(k - 1) - scope_depths[k - 1]

\* the layers of the k-th scope of the scope stack, the topmost first
ScopeLayers(k) ==
  Reverse(SubSeq(definitions, LayersBelow(k) + 1, LayersBelow(k) - scope_depths[k]))

\* the class scopes that enclose the current scope
EnclosingClasses ==
  {k \in 1..(Len(scopes) - 1) : NodeType(module, scopes[k]) = "ClassDef"}

\* the Defs the layers of the enclosing class scopes hold
ClassInstalled ==
  UNION {Entry(layers, osets, l, nm) :
           l \in UNION {Range(ScopeLayers(k)) : k \in EnclosingClasses},
           nm \in KnownNames}

\* nm is a local or the parameter of the k-th scope of the scope stack
LocalOf(k, nm) ==
  \/ nm \in precomputed_locals[k]
  \/ Sub(module, scopes[k]).k = "FunctionDef" /\ Sub(module, scopes[k]).v = nm

\* nm is a local of the current scope or of a function that encloses it,
\* and no layer of that scope binds it
PendingLocal(nm) ==
  \E k \in (1..Len(scopes)) \ EnclosingClasses :
    /\ LocalOf(k, nm)
    /\ \A l \in Range(ScopeLayers(k)) : nm \notin DOMAIN layers[l]

\* the scope under way declares nm nonlocal, in its body or in a statement
\* nested in it
DeclaredNonlocal(nm) ==
  \E s \in Within(Sub(module, Last(scopes)).b) : s.k = "Nonlocal" /\ s.n = nm

(***************************************************************************)
(* C6.  Straight-line code: a store kills the stores before it.            *)
(***************************************************************************)
\* the statements of list l before the i-th that bind nm
StoresBefore(l, i, nm) == {j \in 1..(i - 1) : Binds(l[j], nm)}

\* simple statements only between the j-th statement of l and the i-th
Straight(l, j, i) ==
  \A k \in (j + 1)..(i - 1) :
    l[k].k \in {"Assign", "AugAssign", "Expr", "Import", "Global", "FunctionDef"}

\* process_body is about to visit, in live code, a statement that reads nm
\* after a store of nm of the same list, simple statements only in between
StraightRead(nm) ==
  /\ pc = "run" /\ stack # <<>> /\ Top.k = "body" /\ Top.i <= Len(CurList)
  /\ ReadName(CurList[Top.i]) = nm
  /\ ~Top.dead /\ deadcode = 0
  /\ StoresBefore(CurList, Top.i, nm) # {}
  /\ Straight(CurList, Max(StoresBefore(CurList, Top.i, nm)), Top.i)

\* the Defs of ds that define a name: all but the Defs of the expressions
\* that are only read
Defining(ds) ==
  {d \in ds : ~(d.t = "node" /\ Len(d.n) % 2 = 1 /\ Last(d.n) \notin {3, 5})}

\* the read about to be made is, afterwards, a user of the most recent
\* store of nm and of no other definition of nm
UsesLastStore(nm) ==
  Defining(UsedBy(users', NodeDef(ReadNode(CurPath)), nm))
    = {StoreDef(Top.p \o <<Top.f, Max(StoresBefore(CurList, Top.i, nm))>>)}

IfMerges ==
  /\ BodyDone("If_orelse")
  /\ \A s \in Within(<<Sub(module, stack[2].p)>>) : s.k \notin {"Break", "Continue"}

\* a statement of list l binds nm
ArmStores(l, nm) == \E j \in DOMAIN l : Binds(l[j], nm)

\* a statement of list l that follows no break, continue or raise binds nm
ArmStoresLive(l, nm) ==
  \E j \in DOMAIN l : Binds(l[j], nm) /\ \A k \in 1..(j - 1) : l[k].k \notin Jumps

\* a statement in list l, nested ones included, binds nm or declares it global
Rebinds(l, nm) ==
  \E s \in Within(l) : s.n = nm /\ s.k \notin {"Expr", "While", "If"}

\* the merge for name nm, `both` telling whether both arms store nm: the
\* outer layer's entry becomes the union of the entries at the end of the
\* arms; it holds Defs made in the if only when both arms store nm; it keeps
\* what it held when an arm does not store nm
IfMerged(nm, outer, both) ==
  /\ Entry(layers', osets', outer, nm)
       = Entry(layers, osets, stack[2].x, nm)
         \cup Entry(layers, osets, Last(definitions), nm)
  /\ both => \A d \in Entry(layers', osets', outer, nm) : Inside(d, stack[2].p)
  /\ (~Rebinds(Sub(module, stack[2].p).b, nm) \/ ~Rebinds(Sub(module, stack[2].p).o, nm))
       => Entry(layers, osets, outer, nm) \subseteq Entry(layers', osets', outer, nm)

\* C7 as stated: after an if whose arms contain no break or continue, the
\* outer layer's entry for every name n is the union of the entries n has at
\* the end of the two arms; when both arms store n no definition of n from
\* before the if reaches a later read, when one arm or none stores n those
\* from before the if still reach it.
C7_Original ==
  [][IfMerges =>
       \A nm \in KnownNames \cup KnownNames' :
         IfMerged(nm, definitions[Len(definitions) - 1],
                  /\ ArmStores(Sub(module, stack[2].p).b, nm)
                  /\ ArmStores(Sub(module, stack[2].p).o, nm))]_vars

\* C7: after an if whose arms contain no break or continue, for every name
\* n that no global statement of an enclosing scope or of the arms declares,
\* the outer layer's entry is the union of the entries n has at the end of
\* the two arms; when the if is live and both arms store n in a live
\* statement of their own list, only definitions made in the if reach a
\* later read; when one arm or none binds n those from before the if still
\* reach it.
C7_IfMerge ==
  [][IfMerges =>
       \A nm \in KnownNames \cup KnownNames' :
         ~DeclaredGlobal(Self, nm)
         /\ ~(\E s \in Within(<<Sub(module, stack[2].p)>>) : s.k = "Global" /\ s.n = nm)
         => IfMerged(nm, definitions[Len(definitions) - 1],
                     /\ Ended.deadcode = 0
                     /\ ArmStoresLive(Sub(module, stack[2].p).b, nm)
                     /\ ArmStoresLive(Sub(module, stack[2].p).o, nm))]_vars

\* a = ..; if ..: a = .. else: a = ..; a has been analysed: the read uses
\* the stores of the two arms and not the first one
C7_Witness ==
  /\ pc = "done" /\ module = Module(<<W, If(<<W>>, <<W>>), R>>)
  /\ UsersOf(Self, NodeDef(Target(<<1, 2, 1, 1>>))) = <<NodeDef(Value(<<1, 3>>))>>
  /\ UsersOf(Self, NodeDef(Target(<<1, 2, 2, 1>>))) = <<NodeDef(Value(<<1, 3>>))>>
  /\ UsersOf(Self, NodeDef(Target(<<1, 1>>))) = <<>>

(***************************************************************************)
(* C8.  What reaches a read after a loop.                                  *)
(***************************************************************************)
RECURSIVE LoopOf(_)
\* the loop that the break or continue at path q leaves or resumes: the
\* innermost loop that has q in its body; <<>> if there is none
LoopOf(q) ==
  IF q = <<>> THEN <<>>
  ELSE IF Sub(module, Parent(q)).k \in {"For", "While"} /\ q[Len(q) - 1] = 1
       THEN Parent(q)
  ELSE IF Sub(module, Parent(q)).k \in {"If", "For", "While"}
       THEN LoopOf(Parent(q))
  ELSE <<>>

\* the path of the statement before the one at path q, in the same list
Previous(q) == Parent(q) \o <<q[Len(q) - 1], q[Len(q)] - 1>>

\* the i-th statement of the module is a live loop and the next one reads nm
ReadAfterLoop(i, nm) ==
  /\ i + 1 \in DOMAIN module.b
  /\ module.b[i].k \in {"For", "While"} /\ ~Killed(<<1, i>>)
  /\ ReadName(module.b[i + 1]) = nm

\* the stores of nm that are live at a break or continue of the loop at
\* path lp: the live assignments that such a statement follows directly
LiveAtExit(lp, nm) ==
  {Previous(q) : q \in {q \in Stmts :
     /\ Sub(module, q).k \in {"Break", "Continue"} /\ LoopOf(q) = lp
     /\ ~DeadNested(q) /\ q[Len(q)] > 1
     /\ Sub(module, Previous(q)).k = "Assign" /\ Sub(module, Previous(q)).n = nm}}

\* the store of nm that reaches the entry of the i-th statement of the
\* module: the live assignment right before it
BeforeLoop(i, nm) ==
  IF /\ i > 1 /\ module.b[i - 1].k = "Assign" /\ module.b[i - 1].n = nm
     /\ ~Killed(<<1, i - 1>>)
  THEN {<<1, i - 1>>} ELSE {}

\* the store of nm made in the else clause o of the i-th statement of the
\* module: the assignment that ends it, if it holds no break, continue or
\* raise
InElse(i, o, nm) ==
  IF /\ o # <<>> /\ Last(o).k = "Assign" /\ Last(o).n = nm
     /\ \A k \in DOMAIN o : o[k].k \notin Jumps
  THEN {<<1, i, 2, Len(o)>>} ELSE {}

\* C8: after a for or while loop, a read of name n reaches the definitions
\* of n that reached the loop entry, those live at any break or continue
\* of the loop and those made in its else clause: once the module is
\* analysed, the read that follows the loop is a user of each of them.
C8_ReadAfterLoop ==
  pc = "done" =>
    \A i \in DOMAIN module.b : \A nm \in {"a"} :
      ReadAfterLoop(i, nm) =>
        \A q \in LiveAtExit(<<1, i>>, nm) \cup BeforeLoop(i, nm)
                 \cup InElse(i, module.b[i].o, nm) :
          NodeDef(ReadNode(<<1, i + 1>>)) \in Range(UsersOf(Self, StoreDef(q)))

\* visit_For or visit_While is about to leave its contexts and merge
LoopMerges == BodyDone("For_orelse") \/ BodyDone("While_orelse")

\* what the merge has at hand for nm: what the outer layer holds, what the
\* body layer holds, what the break and continue carriers of the two passes
\* hold, what the layer of the else clause holds
LoopReaching(nm, outer) ==
  Entry(layers, osets, outer, nm)
  \cup Entry(layers, osets, stack[2].x.body_defs, nm)
  \cup Carried(Last(breaks), nm)
  \cup Carried(Last(continues), nm)
  \cup Carried(stack[2].x.continue_defs, nm)
  \cup Entry(layers, osets, Last(definitions), nm)

\* what the merge that ends a loop does guarantee: the outer layer's entry
\* for n holds afterwards all that the layers and the carriers of the loop
\* held, and loses nothing.  A break or continue in the else clause of an
\* inner loop is put in the carrier of that inner loop, not of the loop it
\* leaves, which is how C8 fails.
LoopMergeExtends ==
  [][LoopMerges =>
       \A nm \in KnownNames :
         LoopReaching(nm, definitions[Len(definitions) - 2])
           \subseteq Entry(layers', osets', definitions[Len(definitions) - 2], nm)]_vars

(***************************************************************************)
(* C9.  The back edge of a loop.                                           *)
(***************************************************************************)
\* the loop at path lp binds nm in the j-th statement of its body, a
\* statement that follows no break, continue or raise
BodyStoresLive(lp, j, nm) ==
  /\ j \in DOMAIN Sub(module, lp).b
  /\ Binds(Sub(module, lp).b[j], nm)
  /\ \A k \in 1..(j - 1) : Sub(module, lp).b[k].k \notin Jumps

\* that store is what the body leaves for nm: no statement after it binds
\* nm and none of them is a break
BodyKeeps(lp, j, nm) ==
  /\ ~Rebinds(SubSeq(Sub(module, lp).b, j + 1, Len(Sub(module, lp).b)), nm)
  /\ \A k \in (j + 1)..Len(Sub(module, lp).b) : Sub(module, lp).b[k].k # "Break"

\* nm is bound on the way from the loop entry to the i-th statement of the
\* body
BoundOnEntry(lp, i, nm) ==
  \/ Sub(module, lp).k = "For" /\ Sub(module, lp).n = nm
  \/ Rebinds(SubSeq(Sub(module, lp).b, 1, i - 1), nm)

\* process_body is about to visit a live statement that reads nm, in the
\* pass over the body of a loop that returns to one of `frames`
LoopRead(nm, frames) ==
  /\ pc = "run" /\ Len(stack) >= 2 /\ Top.k = "body" /\ Top.i <= Len(CurList)
  /\ Top.f = 1 /\ stack[2].k \in frames
  /\ ReadName(CurList[Top.i]) = nm
  /\ ~Top.dead /\ deadcode = 0

\* C9 as stated, its first half: once a loop is analysed, a read of n in a
\* statement of its body (or in the test of a while) that precedes a live
\* store of n of the same body is a user of that store's Def.
C9_Original ==
  pc = "done" =>
    \A lp \in Stmts : \A j \in DOMAIN Sub(module, lp).b : \A nm \in {"a"} :
      Sub(module, lp).k \in {"For", "While"} /\ ~DeadInline(lp)
      /\ BodyStoresLive(lp, j, nm) =>
        /\ \A i \in 1..(j - 1) :
             ReadName(Sub(module, lp).b[i]) = nm =>
               NodeDef(ReadNode(lp \o <<1, i>>))
                 \in Range(UsersOf(Self, StoreDef(lp \o <<1, j>>)))
        /\ Sub(module, lp).v = nm =>
             NodeDef(Value(lp)) \in Range(UsersOf(Self, StoreDef(lp \o <<1, j>>)))

\* C9: take a read of n in a live statement of a loop body, or in the test
\* of a while, such that nothing binds n between the loop entry and the
\* read (the target of a for counts).  After the first pass the read is a
\* user of every definition of n that the outer layer held at the loop
\* entry.  After the second pass it is a user of the Def of the store of n
\* that the body leaves: a live store of n in a statement of the body that
\* follows the read and is followed by no other binding of n and by no
\* break.
C9_BackEdge ==
  [][\A nm \in {"a"} :
       /\ LoopRead(nm, {"For_pass2", "While_pass2"})
          /\ ~BoundOnEntry(Top.p, Top.i, nm) =>
            \A j \in (Top.i + 1)..Len(CurList) :
              BodyStoresLive(Top.p, j, nm) /\ BodyKeeps(Top.p, j, nm) =>
                NodeDef(ReadNode(CurPath))
                  \in Range(UsersIn(users', StoreDef(Top.p \o <<1, j>>)))
       /\ BodyDone("While_pass1") /\ Ended.deadcode = 0
          /\ Sub(module, stack[2].p).v = nm =>
            \A j \in DOMAIN CurList :
              BodyStoresLive(stack[2].p, j, nm) /\ BodyKeeps(stack[2].p, j, nm) =>
                NodeDef(Value(stack[2].p))
                  \in Range(UsersIn(users', StoreDef(stack[2].p \o <<1, j>>)))
       /\ LoopRead(nm, {"For_pass1", "While_pass1"})
          /\ ~BoundOnEntry(Top.p, Top.i, nm) =>
            \A d \in Entry(layers, osets, definitions[Len(definitions) - 1], nm) :
              NodeDef(ReadNode(CurPath)) \in Range(UsersIn(users', d))
       /\ BodyDone("While_else0") /\ Ended.deadcode = 0
          /\ Sub(module, stack[2].p).v = nm =>
            \A d \in Entry(layers, osets, definitions[Len(definitions) - 1], nm) :
              NodeDef(Value(stack[2].p)) \in Range(UsersIn(users', d))]_vars

\* a = ..; for ..: a; a = ..   has been analysed: the read in the body uses
\* the store that follows it and the store before the loop
C9_Witness ==
  /\ pc = "done" /\ module = Module(<<W, For("i", <<R, W>>, <<>>), R>>)
  /\ NodeDef(Value(<<1, 2, 1, 1>>))
       \in Range(UsersOf(Self, NodeDef(Target(<<1, 2, 1, 2>>))))
  /\ NodeDef(Value(<<1, 2, 1, 1>>))
       \in Range(UsersOf(Self, NodeDef(Target(<<1, 1>>))))

(***************************************************************************)
(* C10.  Stores in dead code.                                              *)
(***************************************************************************)
\* the statement at path p is a store: assignment, import, def, class, for
IsStore(p) ==
  Sub(module, p).k \in {"Assign", "Import", "FunctionDef", "ClassDef", "For"}

\* the Def is in no layer and has no user
NeverBound(d) == d \notin Installed /\ UsersOf(Self, d) = <<>>

\* the dead-code counter is the number of statement lists under way that
\* have met a break, continue or raise
DeadcodeBalanced ==
  deadcode = Cardinality({i \in DOMAIN stack : stack[i].k = "body" /\ stack[i].dead})

RECURSIVE VisibleLayers(_)
\* the layers of the scopes from the k-th down, the topmost first, the
\* classes that enclose the current scope left out
VisibleLayers(k) ==
  IF k = 0 THEN <<>>
  ELSE (IF k \in EnclosingClasses THEN <<>> ELSE ScopeLayers(k))
       \o VisibleLayers(k - 1)

RECURSIVE FirstEntry(_, _)
\* the entry for nm of the first layer of lays that binds it
FirstEntry(lays, nm) ==
  IF lays = <<>> THEN <<>>
  ELSE IF nm \in DOMAIN layers[Head(lays)] THEN osets[layers[Head(lays)][nm]]
  ELSE FirstEntry(Tail(lays), nm)

\* process_body is about to visit an Expr or an Assign that reads a name
AtRead ==
  /\ (AtStmt("Expr") \/ AtStmt("Assign"))
  /\ CurList[Top.i].v # ""

\* the read at hand resolves to the definitions ds of nm: the Def of the
\* read becomes a user of each and nothing is reported; with no definition
\* it is reported unbound
ResolvesTo(u, nm, ds) ==
  IF ds # <<>>
  THEN /\ \A d \in Range(ds) : NodeDef(u) \in Range(UsersIn(users', d))
       /\ diags' = diags
  ELSE /\ diags' = Append(diags, <<nm, u>>)
       /\ \A d \in DOMAIN users' :
            NodeDef(u) \in Range(users'[d]) => d = UndefDef(u)

\* the read at hand has no definition in its reaching set but those of ds
\* and its placeholder
ReachedFrom(u, ds) ==
  \A d \in DOMAIN users' :
    NodeDef(u) \in Range(users'[d]) => d \in Range(ds) \cup {UndefDef(u)}

\* the reads C11 is stated for: analysed for the first time, outside loops,
\* of a name not declared global or nonlocal, without wildcard imports
PlainRead(nm) ==
  /\ AtRead /\ CurList[Top.i].v = nm /\ Value(CurPath) \notin DOMAIN chains
  /\ undefs = <<>> /\ "*" \notin KnownNames /\ ~DeclaredGlobal(Self, nm)
  /\ ~DeclaredNonlocal(nm)

BoundIn(k, nm) ==
  \E l \in Range(ScopeLayers(k)) :
    nm \in DOMAIN layers[l] \/ "*" \in DOMAIN layers[l]

\* process_body is about to visit, in a class body, a read of a local of the
\* class that no layer of the class binds
ClassRead(nm) ==
  /\ AtRead /\ CurList[Top.i].v = nm
  /\ NodeType(module, Last(scopes)) = "ClassDef"
  /\ nm \in Last(precomputed_locals)
  /\ ~BoundIn(Len(scopes), nm)

\* the read at hand succeeds: nothing is reported, and its Def becomes a
\* user of definitions of nm or of wildcards
Succeeds(u, nm) ==
  /\ diags' = diags
  /\ \E d \in UsedBy(users', NodeDef(u), nm) \cup UsedBy(users', NodeDef(u), "*") :
       d.t # "undef"

\* the read at hand is reported unbound
Reported(u, nm) == diags' = Append(diags, <<nm, u>>)

\* the read at hand is left to the undef frame of the innermost loop
Pending(u, nm) ==
  /\ diags' = diags /\ undefs # <<>>
  /\ \E i \in DOMAIN Last(undefs') :
       /\ Last(undefs')[i].nm = nm
       /\ \E j \in DOMAIN Last(undefs')[i].lst : Last(undefs')[i].lst[j].d.n = u

\* C12 as stated: in a class body, a read of a name n that belongs to the
\* class's precomputed locals and is not yet bound in the class's layers
\* (and no '*' is there) succeeds without diagnostic exactly when a
\* module-scope layer binds n or holds '*'; when the module does not, the
\* read is reported as an unbound identifier even if an enclosing function
\* binds n.
C12_Original ==
  [][ClassRead("a") =>
       IF BoundIn(1, "a") THEN Succeeds(Value(CurPath), "a")
       ELSE Reported(Value(CurPath), "a")]_vars

\* C12: the same, the report being made at once outside a loop; in a loop
\* body the read is left to the undef frame of the loop, as every
\* unresolved read is.
C12_ClassRead ==
  [][ClassRead("a") =>
       IF BoundIn(1, "a") THEN Succeeds(Value(CurPath), "a")
       ELSE IF undefs = <<>> THEN Reported(Value(CurPath), "a")
       ELSE Pending(Value(CurPath), "a")]_vars

\* visit has returned from a module where a class in a function that binds
\* a reads a before it binds it: with a store of a in the module the read
\* has succeeded
C12_Witness ==
  /\ pc = "done"
  /\ module = Module(<<W, FunctionDef("g", "", <<W, ClassDef("C", <<R, W>>)>>)>>)
  /\ diags = <<>>
  /\ NodeDef(<<1, 2, 1, 2, 1, 1, 4>>) \in Range(UsersOf(Self, NodeDef(<<1, 2, 1, 1, 3>>)))

(***************************************************************************)
(* C13.  The read-before-assign check of the non-class scopes.             *)
(***************************************************************************)
\* process_body is about to visit, in a function or module body, a read of
\* a local of the scope that no layer of the scope binds
NonClassRead(nm) ==
  /\ AtRead /\ CurList[Top.i].v = nm
  /\ NodeType(module, Last(scopes)) # "ClassDef"
  /\ nm \in Last(precomputed_locals)
  /\ ~BoundIn(Len(scopes), nm)

\* after the step the read at hand uses no definition made at another node
Unlinked(u) ==
  \A d \in DOMAIN users' :
    NodeDef(u) \in Range(users'[d]) => d \in {UndefDef(u), NodeDef(u)}

\* C13 as stated: in a non-class scope, a read of a name n that belongs to
\* that scope's precomputed locals while no layer of that scope binds n or
\* holds '*' is reported as an unbound identifier and is never linked as a
\* user of a definition of n from an enclosing scope, the module or the
\* builtins.
C13_Original ==
  [][\A nm \in {"a", "len"} :
       NonClassRead(nm) =>
         Reported(Value(CurPath), nm) /\ Unlinked(Value(CurPath))]_vars

\* C13: the same for a name no global statement has declared, the report
\* being made at once outside a loop; in a loop body the read is left to
\* the undef frame of the loop.
C13_ReadBeforeAssign ==
  [][\A nm \in {"a", "len"} :
       NonClassRead(nm) /\ ~DeclaredGlobal(Self, nm) =>
         /\ IF undefs = <<>> THEN Reported(Value(CurPath), nm)
            ELSE Pending(Value(CurPath), nm)
         /\ Unlinked(Value(CurPath))]_vars

\* visit has returned from a module that stores a, declares a function
\* reading a before it stores it and reads a: the read of the function is
\* reported and the store of the module has the read of the module as its
\* only user
C13_Witness ==
  /\ pc = "done"
  /\ module = Module(<<W, FunctionDef("f", "", <<R, W>>), R>>)
  /\ diags = <<<<"a", <<1, 2, 1, 1, 4>>>>>>
  /\ UsersOf(Self, NodeDef(<<1, 1, 3>>)) = <<NodeDef(<<1, 3, 4>>)>>

(***************************************************************************)
(* C14.  Function bodies and the final definitions of the enclosing scope. *)
(***************************************************************************)
RECURSIVE BaseLayers(_)
\* the bottom layers of the scopes from the k-th down, the classes left
\* out: what the bodies of these scopes have bound once fully processed
BaseLayers(k) ==
  IF k = 0 THEN <<>>
  ELSE (IF NodeType(module, scopes[k]) = "ClassDef" THEN <<>>
        ELSE <<Last(ScopeLayers(k))>>)
       \o BaseLayers(k - 1)

\* the definitions nm has in the nearest enclosing scope that binds it
FinalDefs(nm) == FirstEntry(BaseLayers(Len(scopes) - 1), nm)

\* process_body is about to visit, for the first time and outside loops, a
\* read of a free name in a function body
FreeRead(nm) ==
  /\ PlainRead(nm)
  /\ NodeType(module, Last(scopes)) = "FunctionDef"
  /\ ~LocalOf(Len(scopes), nm) /\ ~PendingLocal(nm)

\* C14 as stated: a read of a free name n in a function body resolves to
\* the definitions n has in the enclosing scope once the enclosing scope's
\* body has been fully processed, not to those it had when the function was
\* declared; this holds for every function declaration, including one
\* placed inside an if arm, loop body or try block of the enclosing scope,
\* and for a name the enclosing scope rebinds after the declaration.
C14_FinalDefinitions ==
  [][FreeRead("a") =>
       /\ ReachedFrom(Value(CurPath), FinalDefs("a"))
       /\ ResolvesTo(Value(CurPath), "a", FinalDefs("a"))]_vars

\* what holds instead: the read resolves to the first entry for the name
\* in the layers the declaration has captured, the arm's or the loop
\* body's own layer first
C14_CapturedLayers ==
  [][FreeRead("a") =>
       /\ ReachedFrom(Value(CurPath), FirstEntry(VisibleLayers(Len(scopes) - 1), "a"))
       /\ ResolvesTo(Value(CurPath), "a",
                     FirstEntry(VisibleLayers(Len(scopes) - 1), "a"))]_vars

(***************************************************************************)
(* C15.  The queue of the deferred function bodies.  visit is sequential    *)
(* code that waits for nothing: as long as it has not returned, it takes   *)
(* its next step.  Every state where visit has not returned has a          *)
(* successor by Next, so that this is weak fairness of Next.               *)
(***************************************************************************)
\* visit has not returned
Running == pc \in {"init", "run"}

\* a state that differs in pc only
Elsewhere ==
  /\ pc' \in {"run", "done"}
  /\ UNCHANGED <<module, chains, chain_keys, users, locals, layers, osets,
                 definitions, scope_depths, globals, precomputed_locals,
                 undefs, scopes, breaks, continues, deadcode, defered, diags,
                 nsynth, stack, usedef>>

\* any step from a state where visit has not returned; Elsewhere shows that
\* a state to step to exists
Advance == Running /\ (Elsewhere \/ TRUE)

\* the programs that declare functions in every position, before visit
InitDefered == module \in Forward \cup Pairs /\ Fresh

FairSpec ==
  /\ InitDefered
  /\ [][Next]_vars
  /\ WF_vars(Advance)

\* visit_Module is in its loop over self._defered
Draining == pc = "run" /\ stack # <<>> /\ stack[Len(stack)].k = "defered"

\* the entry of self._defered the loop takes next
LoopIndex == stack[Len(stack)].i

\* the body of a function is under analysis
InFunctionBody ==
  \E k \in DOMAIN scopes : NodeType(module, scopes[k]) = "FunctionDef"

\* statement p has been visited, as far as self.chains shows it
Visited(p) ==
  CASE Sub(module, p).k \in {"FunctionDef", "ClassDef"} -> p \in DOMAIN chains
    [] Sub(module, p).k \in {"Import", "ImportFrom"} -> Target(p) \in DOMAIN chains
    [] Sub(module, p).k = "Expr" -> Value(p) \in DOMAIN chains
    [] Sub(module, p).k = "Lambda" -> Value(p) \in DOMAIN chains
    [] OTHER -> TRUE

\* every statement of the body of p has been visited
BodyVisited(p) == \A i \in DOMAIN Sub(module, p).b : Visited(p \o <<1, i>>)

\* no function body is analysed before the module body is done
AfterModuleBody == InFunctionBody => Draining /\ BodyVisited(ModulePath)

\* the queue grows at its end only, the loop takes its entries one by one
\* in their order, and visit_Module leaves the loop only when every entry
\* has been taken and its body visited
FirstInFirstOut ==
  /\ Len(defered') >= Len(defered)
  /\ SubSeq(defered', 1, Len(defered)) = defered
  /\ Draining /\ Draining' => LoopIndex' \in {LoopIndex, LoopIndex + 1}
  /\ ~InFunctionBody /\ InFunctionBody' =>
       /\ Draining /\ Draining' /\ LoopIndex <= Len(defered)
       /\ LoopIndex' = LoopIndex + 1
       /\ scopes' = Append(defered[LoopIndex].scopes, defered[LoopIndex].fnode)
  /\ pc = "run" /\ pc' # "run" =>
       /\ Draining /\ LoopIndex = Len(defered) + 1 /\ ~InFunctionBody
       /\ \A k \in DOMAIN defered : BodyVisited(defered[k].fnode)

\* C15: no function body is analysed before the last statement of the
\* module body has been processed; queued bodies are then analysed in the
\* order their declarations were queued (FIFO), entries queued during the
\* drain (nested functions) are analysed after every entry queued before
\* them, the drain terminates for every finite module, and the queue is
\* fully drained before the final assertions run.
C15_DeferedQueue ==
  /\ []AfterModuleBody
  /\ [][FirstInFirstOut]_vars
  /\ <>~Running

\* visit has returned from a module with two functions, the first of which
\* declares a function: the inner one was queued during the drain, behind
\* the second, and its body has been analysed
C15_Witness ==
  /\ pc = "done"
  /\ module = Module(<<FunctionDef("f", "", <<FunctionDef("h", "", <<R>>)>>),
                       FunctionDef("g", "", <<W>>)>>)
  /\ Len(defered) = 3
  /\ defered[1].fnode = <<1, 1>> /\ defered[2].fnode = <<1, 2>>
  /\ defered[3].fnode = <<1, 1, 1, 1>>
  /\ diags = <<<<"a", <<1, 1, 1, 1, 1, 1, 4>>>>>>

(***************************************************************************)
(* C16.  The two phases of a lambda.                                       *)
(***************************************************************************)
\* the Def of node u uses a definition or u is reported unbound
Analysed(u) ==
  /\ u \in DOMAIN chains
  /\ \/ \E d \in DOMAIN users : NodeDef(u) \in Range(users[d])
     \/ \E i \in DOMAIN diags : diags[i][2] = u

\* C16 as stated: every lambda goes through both phases like a function:
\* its declaration queues it, and before visit returns its parameters and
\* body are analysed in the lambda's own scope, so every Name read in a
\* lambda body has a Def in chains, is a user of its reaching definitions
\* (or is reported unbound), and the body's Def has the lambda's Def as
\* user.
C16_LambdaBodies ==
  pc = "done" =>
    \A p \in Stmts :
      Sub(module, p).k = "Lambda" =>
        /\ Value(p) \in DOMAIN chains
        /\ \E i \in DOMAIN defered : defered[i].fnode = Value(p)
        /\ Analysed(LambdaBody(p))
        /\ NodeDef(Value(p)) \in Range(UsersOf(Self, NodeDef(LambdaBody(p))))

\* what holds instead: a lambda gets its Def and nothing else; it is never
\* queued and no node of its parameters or body ever enters chains
C16_LambdaSkipped ==
  \A p \in Stmts :
    Sub(module, p).k = "Lambda" =>
      /\ \A i \in DOMAIN defered : defered[i].fnode # Value(p)
      /\ Param(Value(p)) \notin DOMAIN chains
      /\ LambdaBody(p) \notin DOMAIN chains

(***************************************************************************)
(* C17.  The name of a class is installed after its body.                  *)
(***************************************************************************)
Classes == {c \in Stmts : Sub(module, c).k = "ClassDef"}

\* the statements of the body of the statement at p
BodyOf(p) == {p \o <<1, i>> : i \in DOMAIN Sub(module, p).b}

\* the reads of the name of class c that the visit of its body evaluates at
\* once: in a statement of the body, or the decorator, default or return
\* annotation of a method
EagerReads(c) ==
  {Value(p) : p \in {q \in BodyOf(c) : /\ Sub(module, q).k \in {"Expr", "Assign"}
                                       /\ Sub(module, q).v = Sub(module, c).n}}
  \cup {Decorator(p) : p \in {q \in BodyOf(c) : Sub(module, q).d = Sub(module, c).n}}
  \cup {Default(p) : p \in {q \in BodyOf(c) : Sub(module, q).e = Sub(module, c).n}}
  \cup {Returns(p) : p \in {q \in BodyOf(c) : Sub(module, q).r = Sub(module, c).n}}

\* the methods of class c
Methods(c) == {p \in BodyOf(c) : Sub(module, p).k = "FunctionDef"}

\* the reads of the name of class c in the bodies of its methods
MethodReads(c) ==
  {Value(p) : p \in {q \in UNION {BodyOf(m) : m \in Methods(c)} :
                       /\ Sub(module, q).k \in {"Expr", "Assign"}
                       /\ Sub(module, q).v = Sub(module, c).n}}

\* statement p is in the body of a loop
InLoop(p) ==
  \E k \in 1..(Len(p) \div 2) :
    /\ Sub(module, SubSeq(p, 1, 2 * (k - 1))).k \in {"For", "While"}
    /\ p[2 * k - 1] = 1

\* C17 as stated: a class name is installed in the enclosing scope only
\* after the class body has been processed: a read of the class's own name
\* evaluated eagerly inside its body (a class-level statement, a method's
\* annotation, default or decorator) is not a user of the Def of the class
\* being defined, whereas a read of it inside a deferred method body is.
C17_Original ==
  pc = "done" =>
    \A c \in Classes :
      /\ \A u \in EagerReads(c) :
           NodeDef(u) \notin Range(UsersOf(Self, NodeDef(c)))
      /\ \A u \in MethodReads(c) :
           NodeDef(u) \in Range(UsersOf(Self, NodeDef(c)))

\* process_body is about to visit, in the body of a method of class c, a
\* read of the name of c
AtMethodRead(c) ==
  /\ PlainRead(Sub(module, c).n)
  /\ Value(CurPath) \in MethodReads(c)

\* C17: the eager reads of the name of a class that is not in a loop body
\* are never users of the Def of the class (in a loop body the first pass
\* installs the name for the second, and process_undefs hands it the reads
\* of the first); a read in a deferred method body is a user of the Def
\* of the class exactly when that Def is among the definitions the
\* enclosing scopes hold for the name when the method body is analysed.
C17_ClassName ==
  /\ [](\A c \in Classes :
          ~InLoop(c) =>
            \A u \in EagerReads(c) :
              NodeDef(u) \notin Range(UsersOf(Self, NodeDef(c))))
  /\ [][\A c \in Classes :
          AtMethodRead(c) =>
            (NodeDef(Value(CurPath)) \in Range(UsersIn(users', NodeDef(c)))
              <=> NodeDef(c) \in Range(FirstEntry(VisibleLayers(Len(scopes)),
                                                  Sub(module, c).n)))]_vars

\* visit has returned from a module with a class that reads its name in
\* its body and in the body of a method: the first read is reported
\* unbound, the second is the only user of the Def of the class
C17_Witness ==
  /\ pc = "done"
  /\ module = Module(<<ClassDef("C", <<Expr("C"),
                                        FunctionDef("f", "", <<Expr("C")>>)>>)>>)
  /\ diags = <<<<"C", <<1, 1, 1, 1, 4>>>>>>
  /\ UsersOf(Self, NodeDef(<<1, 1>>)) = <<NodeDef(<<1, 1, 1, 2, 1, 1, 4>>)>>

(***************************************************************************)
(* C18.  Names declared global in a function.                              *)
(***************************************************************************)
\* some layer of the current scope holds an entry for nm
HeldLocally(nm) ==
  \E l \in Range(ScopeLayers(Len(scopes))) : nm \in DOMAIN layers[l]

\* the body of a function that has declared nm global is being processed
GlobalIn(nm) ==
  /\ pc = "run" /\ scopes # <<>>
  /\ NodeType(module, Last(scopes)) = "FunctionDef"
  /\ nm \in Last(globals)

\* the node whose Def the statement at p installs at once for its name
Installs(p) ==
  IF Sub(module, p).k \in {"Assign", "Import", "ImportFrom"} THEN Target(p) ELSE p

\* process_body is about to visit a live statement that binds nm at once
AtBinding(nm) ==
  /\ \/ AtStmt("Assign") \/ AtStmt("Import") \/ AtStmt("ImportFrom")
     \/ AtStmt("FunctionDef")
  /\ CurList[Top.i].n = nm /\ deadcode = 0

\* C18 as stated: once a function f has declared `global n`, no definition
\* layer belonging to f's scope ever holds an entry for n: every later
\* binding of n in f (assignment, for target, augmented assignment, named
\* expression, import, def, class) is installed in the module scope's base
\* layer, and every read of n in f is resolved against module-scope layers
\* only.
C18_GlobalBindings ==
  [][GlobalIn("a") /\ scopes' = scopes =>
       /\ ~HeldLocally("a") => ~HeldLocally("a")'
       /\ AtBinding("a") =>
            NodeDef(Installs(CurPath))
              \in Entry(layers', osets', definitions[1], "a")]_vars

\* what holds of the bindings visit_Name makes and of the reads: under
\* `global n` an assignment leaves the layers of f alone and installs its
\* Def in the base layer of the module, and a read reaches no Def but
\* those the layers of the module scope hold for n
C18_StoresAndReads ==
  [][GlobalIn("a") /\ scopes' = scopes =>
       /\ AtStmt("Assign") /\ CurList[Top.i].n = "a" /\ deadcode = 0 =>
            /\ HeldLocally("a")' = HeldLocally("a")
            /\ NodeDef(Target(CurPath)) \in Entry(layers', osets', definitions[1], "a")
       /\ AtRead /\ CurList[Top.i].v = "a" =>
            ReachedFrom(Value(CurPath), FirstEntry(ScopeLayers(1), "a"))]_vars

(***************************************************************************)
(* C19.  Wildcard imports add to the explicit bindings.                    *)
(***************************************************************************)
\* the layers the lookup of nm walks, in the order it walks them
Walk(nm) == looked_up_definitions(Self, nm)

RECURSIVE StarsBefore(_, _)
\* the wildcard Defs of the layers of lays that come before the first layer
\* that binds nm
StarsBefore(lays, nm) ==
  IF lays = <<>> THEN <<>>
  ELSE IF nm \in DOMAIN layers[Head(lays)] THEN <<>>
  ELSE (IF "*" \in DOMAIN layers[Head(lays)]
        THEN osets[layers[Head(lays)]["*"]] ELSE <<>>)
       \o StarsBefore(Tail(lays), nm)

\* the wildcard Defs the lookup of nm walks past, then the explicit
\* definitions of nm it reaches
Additive(nm) == StarsBefore(Walk(nm), nm) \o FirstEntry(Walk(nm), nm)

\* the Defs made at other nodes that the step makes the read at hand use
NewlyUsed(u) ==
  {d \in DOMAIN users' :
     /\ NodeDef(u) \in Range(users'[d]) /\ d.n # u
     /\ NodeDef(u) \notin Range(UsersIn(users, d))}

\* C19: wildcards are additive: when the lookup of name n walks past
\* layers holding '*' before it reaches a layer that binds n explicitly,
\* the reaching set is the wildcard Defs seen so far followed by the
\* explicit definitions of n, and the read becomes a user of all of them;
\* when no layer binds n but a wildcard was seen, the read uses the
\* wildcard Defs and no unbound-identifier diagnostic is emitted.
C19_Wildcards ==
  [][\A nm \in {"a", "len"} :
       AtRead /\ CurList[Top.i].v = nm /\ StarsBefore(Walk(nm), nm) # <<>> =>
         /\ diags' = diags
         /\ \A d \in Range(Additive(nm)) :
              NodeDef(Value(CurPath)) \in Range(UsersIn(users', d))
         /\ NewlyUsed(Value(CurPath)) \subseteq Range(Additive(nm))
         /\ FirstEntry(Walk(nm), nm) # <<>> =>
              defs(Self, Value(CurPath), FALSE).ret = Additive(nm)]_vars

\* visit has returned from a module that imports a wildcard, stores a and
\* declares a function that imports a wildcard and reads a: the read of
\* the function uses the wildcard of the function and the store, and the
\* wildcard of the module, whose layer binds a, has no user
C19_Witness ==
  /\ pc = "done"
  /\ module = Module(<<Star, W, FunctionDef("f", "", <<Star, R>>), R>>)
  /\ \A p \in {<<1, 2, 3>>, <<1, 3, 1, 1, 3>>} :
       NodeDef(<<1, 3, 1, 2, 4>>) \in Range(UsersOf(Self, NodeDef(p)))
  /\ UsersOf(Self, NodeDef(<<1, 1, 3>>)) = <<>>
  /\ diags = <<>>

(***************************************************************************)
(* C20.  Two wildcard imports in a scope.                                  *)
(***************************************************************************)
\* process_body is about to visit a live `from m import *`
AtStar == AtStmt("ImportFrom") /\ CurList[Top.i].n = "*" /\ deadcode = 0

\* the wildcard Defs the layer on top of the definition stack holds
TopStars == Entry(layers, osets, Last(definitions), "*")

\* C20 as stated: `from m import *` adds its alias Def to the '*' entry of
\* the current top layer by extension: after two star-imports in the same
\* scope, the '*' entry holds both Defs and a later read of a name bound
\* nowhere else is a user of both.
C20_StarsExtend ==
  [][AtStar => TopStars' = TopStars \cup {NodeDef(Target(CurPath))}]_vars

\* what holds instead: the import replaces the '*' entry of the top layer
\* by its own alias Def
C20_StarsReplace ==
  [][AtStar => TopStars' = {NodeDef(Target(CurPath))}]_vars

(***************************************************************************)
(* C21.  nonlocal.                                                         *)
(***************************************************************************)
\* process_body is about to visit `nonlocal nm`
AtNonlocal(nm) == AtStmt("Nonlocal") /\ CurList[Top.i].n = nm

\* the scopes that enclose the current one and bind nm in one of their layers
BindingFrames(nm) ==
  {k \in 1..(Len(scopes) - 1) :
     \E l \in Range(ScopeLayers(k)) : nm \in DOMAIN layers[l]}

\* the definition set of the nearest enclosing frame that binds nm
Aliased(nm) == FirstEntry(ScopeLayers(Max(BindingFrames(nm))), nm)

\* the declaration at hand installs that set as the entry of the top layer,
\* or reports nm and installs nothing when no enclosing frame binds it
Declares(nm) ==
  IF BindingFrames(nm) # {}
  THEN /\ nm \in DOMAIN layers'[Last(definitions)]
       /\ osets'[layers'[Last(definitions)][nm]] = Aliased(nm)
       /\ diags' = diags
  ELSE /\ diags' = Append(diags, <<nm, CurPath>>)
       /\ layers' = layers

\* process_body is about to visit a read of nm that follows `nonlocal nm`
\* in its list, nothing that binds nm in between, an enclosing frame binds nm
NonlocalRead(nm) ==
  /\ AtStmt("Expr") /\ CurList[Top.i].v = nm
  /\ \E j \in 1..(Top.i - 1) :
       /\ CurList[j] = Nonlocal(nm)
       /\ \A k \in (j + 1)..(Top.i - 1) : ~Binds(CurList[k], nm)
  /\ BindingFrames(nm) # {}

AtAugAssign(nm) ==
  AtStmt("AugAssign") /\ CurList[Top.i].n = nm /\ ~DeclaredGlobal(Self, nm)

\* the place of key k in the insertion order of chains
Position(keys, k) == CHOOSE i \in DOMAIN keys : keys[i] = k

\* the value enters chains before the target
ValueFirst ==
  Value(CurPath) \notin DOMAIN chains /\ Target(CurPath) \notin DOMAIN chains
    => Position(chain_keys', Value(CurPath)) < Position(chain_keys', Target(CurPath))

\* the Def of the target is a user of every definition that reaches nm and
\* of the Def of the value
Links(nm) ==
  /\ \A d \in Range(Additive(nm)) :
       NodeDef(Target(CurPath)) \in Range(UsersIn(users', d))
  /\ NodeDef(Target(CurPath)) \in Range(UsersIn(users', chains'[Value(CurPath)]))

\* the Def of the target is the one definition the top layer holds for nm
SoleEntry(nm) ==
  Entry(layers', osets', Last(definitions), nm) = {NodeDef(Target(CurPath))}

\* locals changes only if a wildcard contributed to the load
LocalsOnlyIfStar(nm) == locals' # locals => StarsBefore(Walk(nm), nm) # <<>>

\* a target that nothing reaches yields one diagnostic
OneDiagnostic(nm) ==
  Additive(nm) = <<>> =>
    Count(diags', <<nm, Target(CurPath)>>) = Count(diags, <<nm, Target(CurPath)>>) + 1

\* process_body is about to visit a read of nm in straight-line code after
\* an augmented assignment of nm, the last store of nm in the list
AfterAugAssign(nm) ==
  /\ StraightRead(nm) /\ ~DeclaredGlobal(Self, nm)
  /\ CurList[Max(StoresBefore(CurList, Top.i, nm))].k = "AugAssign"

\* C22 as stated: for an augmented assignment `n op= v` on a Name not
\* declared global: v is evaluated first; the target's Def becomes a user of
\* every definition that reaches n at that point and of v's Def; it then
\* becomes the sole entry for n in the top layer, so later straight-line
\* reads of n use it and not the previous definitions; it is appended to
\* locals[scope] only if a wildcard contributed to the load; and an
\* unresolvable target yields exactly one diagnostic.
C22_Original ==
  [][/\ AtAugAssign("a") =>
          /\ ValueFirst /\ Links("a") /\ SoleEntry("a")
          /\ LocalsOnlyIfStar("a") /\ OneDiagnostic("a")
     /\ AfterAugAssign("a") => UsesLastStore("a")]_vars

\* C22: for an augmented assignment `n op= v` on a Name not declared
\* global: v is evaluated first; the target's Def becomes a user of every
\* definition that reaches n at that point and of v's Def; outside dead
\* code it then becomes the sole entry for n in the top layer, so later
\* straight-line reads of n use it and not the previous definitions; it is
\* appended to locals[scope] only if a wildcard contributed to the load;
\* and an unresolvable target yields exactly one diagnostic outside loop
\* bodies, and none at that moment inside one.
C22_AugAssign ==
  [][/\ AtAugAssign("a") =>
          /\ ValueFirst /\ Links("a") /\ LocalsOnlyIfStar("a")
          /\ deadcode = 0 => SoleEntry("a")
          /\ undefs = <<>> => OneDiagnostic("a")
          /\ undefs # <<>> /\ Additive("a") = <<>> =>
               Count(diags', <<"a", Target(CurPath)>>)
                 = Count(diags, <<"a", Target(CurPath)>>)
     /\ AfterAugAssign("a") => UsesLastStore("a")]_vars

\* a = 0; a += 0; a  has been analysed: the target uses the store, the read
\* uses the target and not the store, nothing is reported
C22_Witness ==
  /\ pc = "done"
  /\ module = Module(<<W, AugAssign("a"), R>>)
  /\ NodeDef(<<1, 2, 3>>) \in Range(UsersOf(Self, NodeDef(<<1, 1, 3>>)))
  /\ NodeDef(<<1, 2, 3>>) \in Range(UsersOf(Self, NodeDef(<<1, 2, 4>>)))
  /\ NodeDef(<<1, 3, 4>>) \in Range(UsersOf(Self, NodeDef(<<1, 2, 3>>)))
  /\ NodeDef(<<1, 3, 4>>) \notin Range(UsersOf(Self, NodeDef(<<1, 1, 3>>)))
  /\ diags = <<>>

(***************************************************************************)
(* C23.  What reaches a read after a try.                                  *)
(***************************************************************************)
\* the statements of list l are simple ones
Plain(l) ==
  \A j \in DOMAIN l :
    l[j].k \in {"Assign", "AugAssign", "Expr", "Import", "FunctionDef", "Raise"}

\* the stores of nm of list l that process_body makes in live code
LiveStores(l, nm) ==
  {j \in DOMAIN l : Binds(l[j], nm) /\ \A k \in 1..(j - 1) : l[k].k \notin Jumps}

\* the stores of nm of list l, a handler, which generic_visit walks
HandlerStores(l, nm) == {j \in DOMAIN l : Binds(l[j], nm)}

\* the definition of nm that list f of the statement at p leaves, its
\* stores being those of js
Leaves(p, f, js) == IF js = {} THEN {} ELSE {StoreDef(p \o <<f, Max(js)>>)}

\* the definitions of nm the shared layer of body and else clause holds
\* when the else clause ends
FailsafeDefs(p, nm) ==
  IF LiveStores(Sub(module, p).o, nm) # {}
  THEN Leaves(p, 2, LiveStores(Sub(module, p).o, nm))
  ELSE Leaves(p, 1, LiveStores(Sub(module, p).b, nm))

\* the definitions of nm the layers of the handlers hold when they end
HandlerDefs(p, nm) ==
  Leaves(p, 3, HandlerStores(Sub(module, p).h, nm))
  \cup Leaves(p, 4, HandlerStores(Sub(module, p).g, nm))

\* the definition of nm that reaches the i-th statement of the list at hand
\* from the statements before it
BeforeDefs(i, nm) ==
  IF StoresBefore(CurList, i, nm) # {}
     /\ Straight(CurList, Max(StoresBefore(CurList, i, nm)), i)
  THEN Leaves(Top.p, Top.f, StoresBefore(CurList, i, nm))
  ELSE {}

\* process_body is about to visit, in live code, a read of nm that follows
\* a try whose parts are lists of simple statements
AfterTry(nm) ==
  /\ AtStmt("Expr") /\ CurList[Top.i].v = nm /\ deadcode = 0
  /\ Top.i > 1 /\ CurList[Top.i - 1].k = "Try"
  /\ \A l \in {CurList[Top.i - 1].b, CurList[Top.i - 1].o,
               CurList[Top.i - 1].h, CurList[Top.i - 1].g} : Plain(l)

\* the read at hand becomes a user of every Def of ds
Reaches(ds) ==
  \A d \in ds : NodeDef(Value(CurPath)) \in Range(UsersIn(users', d))

\* a handler is about to be visited
HandlerEntered ==
  \/ BodyDone("Try_orelse")
  \/ BodyDone("Try_handler") /\ Sub(module, stack[2].p).g # <<>>

\* the layer on top of the stack afterwards is a new and empty one
FreshLayer ==
  /\ Len(definitions') = Len(definitions)
  /\ Last(definitions') \notin DOMAIN layers
  /\ layers'[Last(definitions')] = EmptyDict

RECURSIVE InLoopBody(_)
\* statement p is in the body of a loop of its own scope
InLoopBody(p) ==
  /\ p # <<>>
  /\ Sub(module, Parent(p)).k # "FunctionDef"
  /\ \/ Sub(module, Parent(p)).k \in {"For", "While"} /\ p[Len(p) - 1] = 1
     \/ InLoopBody(Parent(p))

\* process_body is about to visit, for the first time, a read of nm in a
\* loop body, and no layer the lookup searches binds nm
UnboundInLoop(nm) ==
  /\ AtRead /\ CurList[Top.i].v = nm
  /\ InLoopBody(CurPath) /\ Value(CurPath) \notin DOMAIN chains
  /\ FirstEntry(Walk(nm), nm) = <<>>

\* what undef frame f lists under nm
Registered(f, nm) ==
  IF \E i \in DOMAIN f : f[i].nm = nm
  THEN f[CHOOSE i \in DOMAIN f : f[i].nm = nm].lst ELSE <<>>

\* the read at hand is added to the innermost undef frame, with the
\* wildcards its lookup went past, and nothing is reported
Deferred(nm) ==
  /\ diags' = diags
  /\ undefs # <<>> /\ Len(undefs') = Len(undefs)
  /\ Registered(Last(undefs'), nm)
       = Append(Registered(Last(undefs), nm),
                [d |-> UndefDef(Value(CurPath)),
                 stars |-> StarsBefore(Walk(nm), nm)])

\* the first pass over the body of a loop has ended
FirstPassDone == BodyDone("For_pass1") \/ BodyDone("While_pass1")

\* the entry e of the undef frame is settled against the top layer: when
\* the layer binds the name, the users of each Def listed become users of
\* each of its definitions and nothing is reported for it; otherwise each
\* read listed is reported unless a wildcard covered it
Settled(e) ==
  IF e.nm \in DOMAIN layers[Last(definitions)]
  THEN \A i \in DOMAIN e.lst :
         /\ \A u \in Range(UsersIn(users, e.lst[i].d)) :
              \A d \in Entry(layers, osets, Last(definitions), e.nm) :
                u \in Range(UsersIn(users', d))
         /\ Count(diags', <<e.nm, e.lst[i].d.n>>) = Count(diags, <<e.nm, e.lst[i].d.n>>)
  ELSE \A i \in DOMAIN e.lst :
         IF e.lst[i].stars = <<>>
         THEN Count(diags', <<e.nm, e.lst[i].d.n>>) > Count(diags, <<e.nm, e.lst[i].d.n>>)
         ELSE Count(diags', <<e.nm, e.lst[i].d.n>>) = Count(diags, <<e.nm, e.lst[i].d.n>>)

\* C24: a Name read in a loop body that no searched layer binds when it is
\* first reached emits no diagnostic at that moment and is registered in
\* the innermost undef frame; when the first pass over the body ends, if
\* the loop's top layer binds the name, every user of the pending
\* placeholder Def becomes a user of each of those definitions and no
\* diagnostic is emitted for it; otherwise a diagnostic is emitted for it
\* unless a wildcard covered the read.
C24_Undefs ==
  [][/\ \A nm \in {"a", "b", "len"} : UnboundInLoop(nm) => Deferred(nm)
     /\ FirstPassDone => \A i \in DOMAIN Last(undefs) : Settled(Last(undefs)[i])]_vars

\* `for i in 0: a; a = 0`: the read in the body is a user of the store that
\* follows it, and nothing is reported
C24_Witness ==
  /\ pc = "done"
  /\ module = Module(<<For("i", <<R, W>>, <<>>), R>>)
  /\ NodeDef(<<1, 1, 1, 1, 4>>) \in Range(UsersOf(Self, NodeDef(<<1, 1, 1, 2, 3>>)))
  /\ diags = <<>>

(***************************************************************************)
(* C25.  The order in which diagnostics reach the sink.                    *)
(***************************************************************************)
\* the statement node n is, or is an expression of
StmtOf(n) == IF Len(n) % 2 = 1 THEN Front(n) ELSE n

\* where the lists of a statement stand in its text: body, handlers, orelse
FieldRank(f) == CASE f = 1 -> 1 [] f = 3 -> 2 [] f = 4 -> 3 [] f = 2 -> 4

\* the first position at which paths p and q part, 0 when one extends the
\* other
Fork(p, q) ==
  IF \E i \in DOMAIN p \cap DOMAIN q : p[i] # q[i]
  THEN CHOOSE i \in DOMAIN p \cap DOMAIN q :
         p[i] # q[i] /\ \A j \in 1..(i - 1) : p[j] = q[j]
  ELSE 0

\* statement p starts before statement q in the text
StmtBefore(p, q) ==
  IF Fork(p, q) = 0 THEN Len(p) < Len(q)
  ELSE IF Fork(p, q) % 2 = 1 THEN FieldRank(p[Fork(p, q)]) < FieldRank(q[Fork(p, q)])
  ELSE p[Fork(p, q)] < q[Fork(p, q)]

\* node m stands before node n in the text (line, then column): the
\* expressions of a statement precede the statements it holds, and a target
\* precedes a value
SourceBefore(m, n) ==
  IF StmtOf(m) = StmtOf(n) THEN Len(m) = Len(n) /\ Len(m) % 2 = 1 /\ Last(m) < Last(n)
  ELSE StmtBefore(StmtOf(m), StmtOf(n))

\* the top-level statement node n is in
TopLevel(n) == SubSeq(n, 1, 2)

\* top-level statement t holds a function body
HoldsFunction(t) ==
  \E q \in Stmts : SubSeq(q, 1, 2) = t /\ Sub(module, q).k \in {"FunctionDef", "Lambda"}

\* the diagnostics of one top-level statement are in source order
InSourceOrder(i, j) ==
  TopLevel(diags[i][2]) = TopLevel(diags[j][2])
    => ~SourceBefore(diags[j][2], diags[i][2])

\* the diagnostics of two top-level statements are in statement order
InStatementOrder(i, j) ==
  TopLevel(diags[i][2])[2] <= TopLevel(diags[j][2])[2]

OutOfOrder(t) ==
  \E q \in Stmts :
    /\ SubSeq(q, 1, 2) = t
    /\ Sub(module, q).k \in {"FunctionDef", "Lambda", "For", "While", "Try", "AugAssign"}

OpensScope(k) == \E i \in DOMAIN scope_depths : LayersBelow(i) + 1 = k

\* what the layer at position k of the definition stack holds for nm
Content(ls, os, ds, k, nm) ==
  IF nm \in DOMAIN ls[ds[k]] THEN os[ls[ds[k]][nm]] ELSE <<>>

\* the layer at position k + 1 is a branch layer pushed over the layer at
\* position k, and the step leaves it on the stack
BranchActive(k) ==
  /\ ~OpensScope(k + 1)
  /\ Len(definitions') > k
  /\ SubSeq(definitions', 1, k + 1) = SubSeq(definitions, 1, k + 1)

\* the step changes no entry of a layer that has a branch layer over it,
\* the names bound through a global declaration apart
ParentKept ==
  \A k \in 1..(Len(definitions) - 1) :
    BranchActive(k) =>
      \A nm \in {"a", "b", "i", "f", "C", "*"} :
        ~DeclaredGlobal(Self, nm) =>
          Content(layers', osets', definitions', k, nm)
            = Content(layers, osets, definitions, k, nm)

\* statement q is in list f of statement p, in the scope of p
InArm(p, f, q) ==
  /\ Len(q) >= Len(p) + 2 /\ SubSeq(q, 1, Len(p) + 1) = p \o <<f>>
  /\ \A k \in (Len(p) \div 2 + 1)..(Len(q) \div 2 - 1) :
       Sub(module, SubSeq(q, 1, 2 * k)).k \notin {"FunctionDef", "ClassDef", "Lambda"}

\* the if statements that no loop holds, in a module without global
\* declarations
IfsOutsideLoops ==
  {p \in Stmts : /\ Sub(module, p).k = "If" /\ ~InLoop(p)
                 /\ \A q \in Stmts : Sub(module, q).k # "Global"}

\* the stores in list f of p
StoresIn(p, f) ==
  {Target(q) : q \in {q \in Stmts : InArm(p, f, q)
                               /\ Sub(module, q).k \in {"Assign", "AugAssign", "Import", "For"}}}

\* the reads in list f of p
ReadsIn(p, f) ==
  {Value(q) : q \in {q \in Stmts : InArm(p, f, q)
                              /\ Sub(module, q).k \in {"Expr", "Assign"}
                              /\ Sub(module, q).v # ""}}

\* no read of the orelse arm of an if uses a store of its body arm
ArmsApart ==
  \A p \in IfsOutsideLoops :
    \A d \in StoresIn(p, 1) : \A r \in ReadsIn(p, 2) :
      NodeDef(r) \notin Range(UsersOf(Self, NodeDef(d)))

\* C26: branch layers are isolated copies: while a layer pushed over the top
\* layer is active, no set_definition or extend_definition call changes the
\* content of any entry of the layer below it; hence, outside any loop, a
\* definition made in the body arm of an if, including one made in a loop
\* or try nested in that arm, is never in the reaching set of a read in the
\* orelse arm of the same if.
C26_Isolated == [][ParentKept]_vars /\ []ArmsApart

(***************************************************************************)
(* C27.  Two rounds over the body of a loop are enough.                    *)
(***************************************************************************)
\* the state the third round started from
Round2 == stack[2].x.saved

\* Def d has a user it did not have when the third round started
UserAdded(d) == ~(Range(users[d]) \subseteq Range(UsersIn(Round2.users, d)))

\* Def d existed when the third round started: it had users or a layer
\* held it, or it is the Def of a node; the `__class__` Def a class body
\* gets is made anew by every visit of the class
Existed(d) ==
  \/ d \in DOMAIN Round2.users
  \/ d \in Range(Round2.chains)
  \/ \E i \in DOMAIN Round2.osets : d \in Range(Round2.osets[i])

\* the third round gave no Def that existed a user it did not have
NoUserAdded == \A d \in DOMAIN users : Existed(d) => ~UserAdded(d)

\* what layer lid of S holds for nm
Held(S, lid, nm) ==
  IF nm \in DOMAIN S.layers[lid] THEN Range(S.osets[S.layers[lid][nm]]) ELSE {}

\* the third round gave no entry of a layer of the definition stack a
\* definition it did not hold
NoDefinitionAdded ==
  \A k \in DOMAIN Round2.definitions :
    \A nm \in DOMAIN layers[Round2.definitions[k]] :
      Held(Self, Round2.definitions[k], nm) \subseteq Held(Round2, Round2.definitions[k], nm)

\* the statement as written: no Def at all gains a user
C27_Original ==
  Round3Done => (\A d \in DOMAIN users : ~UserAdded(d)) /\ NoDefinitionAdded

\* C27: two passes over a loop body reach the fixed point: for every for or
\* while loop, running the extra round (continue definitions handed to the
\* body layer, target or test, body) a third time from the state left by
\* the second pass adds no user to any Def that exists when it starts and
\* no definition to any layer entry, including for bodies with break,
\* continue, nested if and nested loops.
C27_FixedPoint == Round3Done => NoUserAdded /\ NoDefinitionAdded

\* the third round over a while loop that holds a for loop has ended, and
\* a Def made in the loop has users
C27_Witness ==
  /\ Round3Done /\ Sub(module, stack[2].p).k = "While"
  /\ \E q \in Stmts : InArm(stack[2].p, 1, q) /\ Sub(module, q).k = "For"
  /\ \E d \in DOMAIN users : Inside(d, stack[2].p) /\ users[d] # <<>>

(***************************************************************************)
(* C28.  The four stacks of the walk.                                      *)
(***************************************************************************)
RECURSIVE LayersOf(_)
\* the number of layers the scope depths ds account for
LayersOf(ds) == IF ds = <<>> THEN 0 ELSE LayersOf(Front(ds)) - Last(ds)

\* the stacks scopes, scope_depths, precomputed_locals and definitions fit
Balanced(sc, ds, pl, ls) ==
  /\ Len(sc) = Len(ds) /\ Len(ds) = Len(pl)
  /\ \A i \in DOMAIN ds : ds[i] <= -1
  /\ Len(ls) = LayersOf(ds)

\* the slice of the definition stack the resolver takes for scope k
ScopeSlice(k) == (LayersOf(SubSeq(scope_depths, 1, k - 1)) + 1)..LayersOf(SubSeq(scope_depths, 1, k))

\* the slices are the layers of the stack, each in one scope
SlicesExact ==
  /\ UNION {ScopeSlice(k) : k \in DOMAIN scope_depths} = DOMAIN definitions
  /\ \A j, k \in DOMAIN scope_depths : j # k => ScopeSlice(j) \cap ScopeSlice(k) = {}

\* C28: at every point of the analysis, including inside a restored
\* snapshot of a deferred function, the scope stack, the scope-depth stack
\* and the precomputed-locals stack have the same length, every scope depth
\* is at most -1, and the number of definition layers equals the sum of the
\* absolute values of the scope depths, so that the slices used by the
\* resolver select exactly the layers of each scope; the snapshots queued
\* for the deferred functions fit in the same way.
C28_Stacks ==
  /\ Balanced(scopes, scope_depths, precomputed_locals, definitions)
  /\ SlicesExact
  /\ \A i \in DOMAIN defered :
       Balanced(defered[i].scopes, defered[i].scope_depths,
                defered[i].precomputed_locals, defered[i].defs)

\* the body of a function declared in the arm of an if is being visited:
\* the stacks restored hold the layer of the arm
C28_Witness ==
  /\ pc = "run" /\ scope_depths = <<-2, -1>> /\ Len(definitions) = 3
  /\ Sub(module, Last(scopes)).k = "FunctionDef"

(***************************************************************************)
(* C29.  One diagnostic for a Name, no Def that uses itself.               *)
(***************************************************************************)
\* node is a Name: an expression of a statement, not the statement
IsName(node) == Len(node) % 2 = 1

\* no Name is reported twice
ReportedOnce ==
  \A i, j \in DOMAIN diags :
    (i # j /\ IsName(diags[i][2])) => diags[i][2] # diags[j][2]

\* the Def of a Name that is read, the target of an augmented assignment
\* apart (in a loop it reads the definition it made), is not among its own
\* users
NoSelfUser ==
  \A d \in DOMAIN users :
    (d.t = "node" /\ IsName(d.n) /\ Last(d.n) # 3) => d \notin Range(users[d])

\* C29: during one analysis, at most one unbound-identifier diagnostic is
\* emitted for any given Name node, and no Def becomes a user of itself
\* through an unresolved read; this includes reads located in a loop body,
\* which is walked twice, and reads in the target of an augmented
\* assignment, which is looked up twice.
C29_Once == ReportedOnce /\ NoSelfUser

(***************************************************************************)
(* C30.  A class in a function reads a name it is about to bind.           *)
(***************************************************************************)
\* the classes that are statements of the body of a function
ClassesInFunctions ==
  {c \in Classes : Parent(c) # <<>> /\ Sub(module, Parent(c)).k = "FunctionDef"}

\* a statement of the body of the statement at p binds nm
BindsInBody(p, nm) == \E q \in BodyOf(p) : Binds(Sub(module, q), nm)

\* the reads of nm in the body of class c that come before the first
\* statement of the body that binds nm
EarlyReads(c, nm) ==
  {Value(q) : q \in {q \in BodyOf(c) :
     /\ Sub(module, q).k \in {"Expr", "Assign"} /\ Sub(module, q).v = nm
     /\ \E l \in BodyOf(c) : Last(l) >= Last(q) /\ Binds(Sub(module, l), nm)
     /\ \A e \in BodyOf(c) : Last(e) < Last(q) => ~Binds(Sub(module, e), nm)}}

\* Def d is the Def of a statement of the module scope
ModuleScope(d) ==
  /\ d.t = "node"
  /\ \A k \in 1..(Len(StmtOf(d.n)) \div 2 - 1) :
       Sub(module, SubSeq(d.n, 1, 2 * k)).k \notin {"FunctionDef", "ClassDef", "Lambda"}
  /\ Sub(module, StmtOf(d.n)).k \in {"FunctionDef", "ClassDef"} => Len(d.n) % 2 = 0

\* C30: in the body of a class nested in a function, a read of a name n
\* that the class itself binds later, and that both the enclosing function
\* and the module bind, is a user of the module-scope definitions of n only
\* and never of the enclosing function's definition of n.
C30_ModuleOnly ==
  \A c \in ClassesInFunctions :
    (BindsInBody(Parent(c), "a") /\ BindsInBody(<<>>, "a")) =>
      \A r \in EarlyReads(c, "a") :
        \A d \in UsedBy(users, NodeDef(r), "a") : ModuleScope(d)

====
